---- MODULE Spec2Model ----
(***************************************************************************)
(* Marketplace monitor (new_main.py, time_management.py, telegram.py):     *)
(* the schedule engine as pure operators over calendar records, and the    *)
(* polling loop of monitor_all_pairs_together as a state machine of        *)
(* cooperatively scheduled coroutines.                                     *)
(***************************************************************************)
EXTENDS Integers, Sequences, FiniteSets, TLC

\* ------------------------------------------------------------------------
\* Calendar arithmetic of datetime (proleptic Gregorian, as in Python)
\* ------------------------------------------------------------------------

\* A datetime is [year, month, day, hour, minute, second, microsecond].
IsLeap(y) == (y % 4 = 0 /\ y % 100 # 0) \/ y % 400 = 0

DaysInMonth(y, m) ==
    IF m = 2 THEN (IF IsLeap(y) THEN 29 ELSE 28)
    ELSE IF m \in {4, 6, 9, 11} THEN 30 ELSE 31

\* Day of the week, 0 = Sunday (Sakamoto's rule).
DayOfWeek(y, m, d) ==
    LET t  == <<0, 3, 2, 5, 0, 3, 5, 1, 4, 6, 2, 4>>
        yy == IF m < 3 THEN y - 1 ELSE y
    IN (yy + yy \div 4 - yy \div 100 + yy \div 400 + t[m] + d) % 7

FirstSunday(y, m) == CHOOSE d \in 1..7 : DayOfWeek(y, m, d) = 0

NextDay(dt) ==
    IF dt.day < DaysInMonth(dt.year, dt.month) THEN [dt EXCEPT !.day = dt.day + 1]
    ELSE IF dt.month < 12 THEN [dt EXCEPT !.day = 1, !.month = dt.month + 1]
    ELSE [dt EXCEPT !.day = 1, !.month = 1, !.year = dt.year + 1]

\* dt + h hours, 0 <= h < 24.
AddHours(dt, h) ==
    IF dt.hour + h < 24 THEN [dt EXCEPT !.hour = dt.hour + h]
    ELSE NextDay([dt EXCEPT !.hour = dt.hour + h - 24])

\* datetime.time(): the naive time of day, microseconds included.
TimeOf(dt) == <<dt.hour, dt.minute, dt.second, dt.microsecond>>

\* Python's ordering of datetime.time values (lexicographic).
TimeLT(a, b) ==
    \/ a[1] < b[1]
    \/ a[1] = b[1] /\ a[2] < b[2]
    \/ a[1] = b[1] /\ a[2] = b[2] /\ a[3] < b[3]
    \/ a[1] = b[1] /\ a[2] = b[2] /\ a[3] = b[3] /\ a[4] < b[4]

TimeLE(a, b) == a = b \/ TimeLT(a, b)

\* Ordering of two datetimes of the same zone.
DateTimeLT(a, b) ==
    \/ a.year < b.year
    \/ a.year = b.year /\ a.month < b.month
    \/ a.year = b.year /\ a.month = b.month /\ a.day < b.day
    \/ a.year = b.year /\ a.month = b.month /\ a.day = b.day /\ TimeLT(TimeOf(a), TimeOf(b))

\* strftime("%Y-%m-%d %H:%M:%S"): the microsecond is dropped.
FormatSeconds(dt) == <<dt.year, dt.month, dt.day, dt.hour, dt.minute, dt.second>>

\* strftime("%H:%M")
FormatHM(t) == <<t[1], t[2]>>

\* datetime.fromisoformat of a string written by FormatSeconds.
fromisoformat(s) ==
    [year |-> s[1], month |-> s[2], day |-> s[3], hour |-> s[4], minute |-> s[5],
     second |-> s[6], microsecond |-> 0]

\* str.lower() on the location names the model uses.
Lower(s) ==
    CASE s = "Melbourne" -> "melbourne"
      [] s = "Brisbane"  -> "brisbane"
      [] s = "Perth"     -> "perth"
      [] OTHER           -> s

\* ------------------------------------------------------------------------
\* time_management.py
\* ------------------------------------------------------------------------

LOCATION_TIMEZONES ==
    [melbourne |-> "Australia/Melbourne", brisbane |-> "Australia/Brisbane"]

DEFAULT_TIMEZONE == "UTC"

get_location_timezone(location) ==
    LET location_key == Lower(location)
    IN IF location_key \in DOMAIN LOCATION_TIMEZONES
       THEN LOCATION_TIMEZONES[location_key] ELSE DEFAULT_TIMEZONE

\* Australia/Melbourne keeps daylight time from the first Sunday of October,
\* 02:00 standard time, to the first Sunday of April, 03:00 daylight time:
\* both instants are 16:00 UTC of the day before, so UTC + 8 h crosses
\* midnight into that Sunday at the switch.
MelbourneDst(utc) ==
    LET s == AddHours(utc, 8)
    IN \/ s.month > 10 \/ s.month < 4
       \/ s.month = 10 /\ s.day >= FirstSunday(s.year, 10)
       \/ s.month = 4 /\ s.day < FirstSunday(s.year, 4)

\* Hours east of UTC of a zone at an instant.
UtcOffset(tz, utc) ==
    CASE tz = "Australia/Brisbane"  -> 10
      [] tz = "Australia/Melbourne" -> (IF MelbourneDst(utc) THEN 11 ELSE 10)
      [] OTHER                      -> 0

\* datetime.now(pytz.UTC).astimezone(tz), the instant given as utc.
astimezone(utc, tz) == AddHours(utc, UtcOffset(tz, utc))

start_inactive == <<22, 0, 0, 0>>
end_inactive == <<6, 30, 0, 0>>

\* now.replace(hour=.., minute=.., second=0): the microsecond stays.
ReplaceHMS(now, t) == [now EXCEPT !.hour = t[1], !.minute = t[2], !.second = 0]

\* dt.replace(day=d) is a ValueError when the month has no such day.
ReplaceDayOk(dt, d) == d >= 1 /\ d <= DaysInMonth(dt.year, dt.month)

\* Variant: the end of the period compared with <.
InInactivePeriodStrict(current_time) ==
    TimeLE(start_inactive, current_time) \/ TimeLT(current_time, end_inactive)

\* The test of line 38 / line 75: start_inactive <= t or t <= end_inactive.
InInactivePeriod(current_time) ==
    TimeLE(start_inactive, current_time) \/ TimeLE(current_time, end_inactive)

\* next_t.replace(day=now.day + 1): ok = FALSE stands for the ValueError.
Tomorrow(now, next_t) ==
    IF ReplaceDayOk(next_t, now.day + 1)
    THEN [ok |-> TRUE, value |-> [next_t EXCEPT !.day = now.day + 1]]
    ELSE [ok |-> FALSE, value |-> next_t]

\* The instant monitoring resumes (lines 39-46 and 83-86).
NextActiveTime(now) ==
    LET next_active_time == ReplaceHMS(now, end_inactive)
    IN IF TimeLT(end_inactive, TimeOf(now))
       THEN Tomorrow(now, next_active_time)
       ELSE [ok |-> TRUE, value |-> next_active_time]

is_monitoring_active(location, utcnow) ==
    LET tz == get_location_timezone(location)
        now == astimezone(utcnow, tz)
        current_time == TimeOf(now)
    IN IF InInactivePeriod(current_time)
       THEN LET next_t == NextActiveTime(now)
                reason == [kind |-> "Nighttime hours", location |-> location,
                           local_time |-> FormatHM(current_time)]
            IN [raised |-> ~next_t.ok, is_active |-> FALSE, reason |-> reason,
                next_change |-> next_t.value]
       ELSE [raised |-> FALSE, is_active |-> TRUE,
             reason |-> [kind |-> "Daytime hours", location |-> location,
                         local_time |-> FormatHM(current_time)],
             next_change |-> ReplaceHMS(now, start_inactive)]

get_monitoring_schedule(location, utcnow) ==
    LET tz == get_location_timezone(location)
        now == astimezone(utcnow, tz)
        current_time == TimeOf(now)
        is_active == ~InInactivePeriod(current_time)
        next_change ==
            IF is_active THEN [ok |-> TRUE, value |-> ReplaceHMS(now, start_inactive)]
            ELSE NextActiveTime(now)
    IN [raised |-> ~next_change.ok,
        location |-> location,
        timezone |-> tz,
        local_time |-> FormatSeconds(now),
        is_active |-> is_active,
        next_change |-> FormatSeconds(next_change.value),
        next_status |-> IF is_active THEN "inactive" ELSE "active",
        active_hours |-> <<FormatHM(end_inactive), FormatHM(start_inactive)>>]

\* ------------------------------------------------------------------------
\* new_main.py: user records and the Subscription Compiler
\* ------------------------------------------------------------------------

None == "None"

NoModes == [mode_only_preferred |-> 0, near_good_deals |-> 0, good_deals |-> 0]

User(id, status, expiry, location, keywords, excluded, modes) ==
    [user_id |-> id, activation_status |-> status, expiry_date |-> expiry,
     location |-> location, keywords |-> keywords, excluded_words |-> excluded,
     fixed_lat |-> -37, fixed_lon |-> 144, modes |-> modes]

\* The user lists the runs start from (fetch_users_from_db is called once,
\* by the caller of monitor_all_pairs_together).
\* Two work items of one location, spelled in two ways.
SharedUsers ==
    << User(1, 1, <<2026, 1, 1>>, "Brisbane", <<"bike">>, <<>>, NoModes),
       User(3, 1, <<2026, 1, 1>>, "brisbane", <<"bike">>, <<>>, NoModes) >>

\* Two time zones, a subscription that expires during the run, a user
\* without keywords and a deactivated user.
ZoneUsers ==
    << User(1, 1, <<2025, 7, 30>>, "Brisbane", <<"bike">>, <<>>, NoModes),
       User(4, 1, <<2026, 1, 1>>, "Perth", <<"bike">>, <<>>, NoModes),
       User(5, 1, <<2026, 1, 1>>, "Brisbane", <<>>, <<>>, NoModes),
       User(6, 0, <<2026, 1, 1>>, "Perth", <<"car">>, <<>>, NoModes) >>

\* One work item with two subscribers, one of them filtering.
PipelineUsers ==
    << User(1, 1, <<2026, 1, 1>>, "Brisbane", <<"bike">>, <<>>, NoModes),
       User(2, 1, <<2026, 1, 1>>, "Brisbane", <<"bike">>, <<"Parts">>,
            [NoModes EXCEPT !.good_deals = 1]) >>

\* One subscriber whose keyword list names the keyword twice: the work item
\* lists the subscriber twice.
DupUsers ==
    << User(7, 1, <<2026, 1, 1>>, "Brisbane", <<"bike", "bike">>, <<>>, NoModes) >>

\* One work item whose subscribers each have one filter: an excluded word,
\* and each of the three modes.
ModeUsers ==
    << User(11, 1, <<2026, 1, 1>>, "Brisbane", <<"bike">>, <<"Parts">>, NoModes),
       User(12, 1, <<2026, 1, 1>>, "Brisbane", <<"bike">>, <<>>,
            [NoModes EXCEPT !.mode_only_preferred = 1]),
       User(13, 1, <<2026, 1, 1>>, "Brisbane", <<"bike">>, <<>>,
            [NoModes EXCEPT !.near_good_deals = 1]),
       User(14, 1, <<2026, 1, 1>>, "Brisbane", <<"bike">>, <<>>,
            [NoModes EXCEPT !.good_deals = 1]) >>

\* One subscriber with the good_deals mode, one keyword and one location.
ScenarioUsers ==
    << User(31, 1, <<2026, 1, 1>>, "Brisbane", <<"bike">>, <<>>,
            [NoModes EXCEPT !.good_deals = 1]) >>

\* The stored users after that subscriber was deactivated and another one
\* was added.
ScenarioUsersLater ==
    << User(31, 0, <<2026, 1, 1>>, "Brisbane", <<"bike">>, <<>>,
            [NoModes EXCEPT !.good_deals = 1]),
       User(32, 1, <<2026, 1, 1>>, "Brisbane", <<"bike">>, <<>>, NoModes) >>

\* The instants (UTC) the clock of a run steps through.
Timeline ==
    LET At(d, h, mi, us) ==
            [year |-> 2025, month |-> 7, day |-> d, hour |-> h, minute |-> mi,
             second |-> 0, microsecond |-> us]
    IN << At(30, 11, 0, 0),    \* Brisbane 21:00, UTC 11:00: both zones active
          At(30, 12, 0, 0),    \* Brisbane 22:00 of the 30th: paused
          At(30, 20, 30, 1),   \* Brisbane 06:30:00.000001 of the 31st: resumed
          At(30, 22, 0, 0),    \* UTC 22:00: paused; Brisbane 08:00
          At(31, 12, 0, 0) >>  \* Brisbane 22:00 of the 31st; UTC 12:00

\* datetime.now().date(), the process taken to run in UTC.
DateOf(dt) == <<dt.year, dt.month, dt.day>>

DateLT(a, b) ==
    \/ a[1] < b[1]
    \/ a[1] = b[1] /\ a[2] < b[2]
    \/ a[1] = b[1] /\ a[2] = b[2] /\ a[3] < b[3]

\* datetime.strptime(expiry_date, "%Y-%m-%d") succeeds.
StrptimeOk(s) ==
    /\ Len(s) = 3
    /\ s[2] \in 1..12
    /\ s[3] >= 1 /\ s[3] <= DaysInMonth(s[1], s[2])

\* Variant: a subscription is over on its expiry date.
SurvivesStrict(user, today) ==
    ~(user.activation_status = 0 \/ ~DateLT(today, user.expiry_date))

\* Line 162 negated: the user is kept.
Survives(user, today) ==
    ~(user.activation_status = 0 \/ DateLT(user.expiry_date, today))

SubscriberConfig(user) ==
    [chat_id |-> user.user_id, excluded_words |-> user.excluded_words,
     fixed_lat |-> user.fixed_lat, fixed_lon |-> user.fixed_lon, modes |-> user.modes]

\* The entries one user appends to user_pair_map[pair]: one per occurrence
\* of the keyword in the user's keyword list.
EntriesOfUser(user, pair) ==
    LET n == IF user.location = pair[2]
             THEN Cardinality({i \in DOMAIN user.keywords : user.keywords[i] = pair[1]})
             ELSE 0
    IN [i \in 1..n |-> SubscriberConfig(user)]

RECURSIVE EntriesOf(_, _)
EntriesOf(us, pair) ==
    IF us = <<>> THEN <<>>
    ELSE EntriesOfUser(Head(us), pair) \o EntriesOf(Tail(us), pair)

\* Variant: every pair is taken as active.
ActivePairsAll(pairs, utcnow) == pairs

\* Variant: no pair is taken as active.
ActivePairsNone(pairs, utcnow) == {}

\* Lines 183 and 190-191: the pairs whose location is active.
ActivePairs(pairs, utcnow) ==
    {p \in pairs : is_monitoring_active(p[2], utcnow).is_active}

\* The loop body of lines 158-199 raises for this user: strptime at line
\* 160, or the schedule engine at line 183 for the first keyword of a user
\* who passed line 162.
RaisesAt(u, utcnow) ==
    \/ ~StrptimeOk(u.expiry_date)
    \/ /\ StrptimeOk(u.expiry_date)
       /\ Survives(u, DateOf(utcnow))
       /\ u.keywords # <<>>
       /\ is_monitoring_active(u.location, utcnow).raised

\* The loop of line 157 from user i on: the index of the first user the body
\* raises for, Len(us) + 1 when it raises for none.
RECURSIVE FirstRaiser(_, _, _)
FirstRaiser(us, utcnow, i) ==
    IF i > Len(us) \/ RaisesAt(us[i], utcnow) THEN i
    ELSE FirstRaiser(us, utcnow, i + 1)

\* What generate_pairs_and_log has built when the loop of line 157 is left
\* at user r (Len(us) + 1: after the last user).  raised: strptime or the
\* schedule engine raised for user r; LOCATION_USERS (cleared at line 153)
\* and LOCATION_STATUS then hold what the loop wrote before the exception:
\* the users before r, and user r too when line 176 had already added it.
CompiledUpTo(us, utcnow, status, r) ==
    LET today == DateOf(utcnow)
        reached == SubSeq(us, 1, r - 1)
        entered == IF r <= Len(us) /\ StrptimeOk(us[r].expiry_date)
                   THEN SubSeq(us, 1, r) ELSE reached
        kept == SelectSeq(reached, LAMBDA u : Survives(u, today))
        added == SelectSeq(entered, LAMBDA u : Survives(u, today))
        withKw == {i \in DOMAIN kept : kept[i].keywords # <<>>}
        pairs == UNION {{<<kept[i].keywords[n], kept[i].location>> :
                            n \in DOMAIN kept[i].keywords} : i \in withKw}
        keys == {Lower(kept[i].location) : i \in withKw}
        first(k) == kept[CHOOSE i \in withKw :
                            /\ Lower(kept[i].location) = k
                            /\ \A m \in withKw : Lower(kept[m].location) = k => i <= m].location
        stale(k) == \/ k \notin DOMAIN status
                    \/ status[k].is_active # is_monitoring_active(first(k), utcnow).is_active
    IN [raised |-> r <= Len(us),
        active_pairs |-> ActivePairs(pairs, utcnow),
        user_pair_map |-> [p \in pairs |-> EntriesOf(kept, p)],
        LOCATION_USERS |->
            [k \in {Lower(added[i].location) : i \in DOMAIN added} |->
                {added[i].user_id : i \in {m \in DOMAIN added : Lower(added[m].location) = k}}],
        LOCATION_STATUS |->
            [k \in DOMAIN status \cup keys |->
                IF k \in keys /\ stale(k) THEN get_monitoring_schedule(first(k), utcnow)
                ELSE status[k]]]

\* generate_pairs_and_log(users) at the instant utcnow, with the
\* LOCATION_STATUS it finds.
generate_pairs_and_log(us, utcnow, status) ==
    CHOOSE g \in {CompiledUpTo(us, utcnow, status, r) :
                     r \in {FirstRaiser(us, utcnow, 1)}} : TRUE

\* ------------------------------------------------------------------------
\* State
\* ------------------------------------------------------------------------

VARIABLES
    world,             \* what the collaborators of this run can answer
    users,             \* the list monitor_all_pairs_together was called with
    clock,             \* index into Timeline: the current instant
    mainpc,            \* position of monitor_all_pairs_together
    LOCATION_STATUS,   \* global dict: location key -> schedule dict
    LOCATION_USERS,    \* global dict: location key -> set of chat ids
    active_pairs,      \* locals of monitor_all_pairs_together
    user_pair_map,
    full_pairs,
    seen_listings,
    first_run,
    location_updates,  \* local of check_and_update_schedules (pending part)
    notifying,         \* the location whose broadcast the main coroutine awaits
    tasks,             \* pair -> frame of its check_marketplace_pair coroutine
    cur,               \* the coroutine running between two awaits, or NoTask
    emitted,           \* observer: status broadcasts started by the last step
    acts,              \* observer: pair -> notification steps of its current poll
    seenAtFetch,       \* observer: pair -> seen_listings when its page was read
    visited,           \* observer: pair -> links of the records its poll has passed
    notifiedBy,        \* observer: link -> pairs that ran the pipeline for it
    seededFirst,       \* observer: links that entered seen_listings by seeding
    flipped,           \* observer: location keys whose state flipped this cycle
    bcastCycle,        \* observer: location key -> broadcasts of this cycle (max 2)
    lastBroadcast,     \* observer: location key -> state of its last broadcast
    stored,            \* the user records the persistence layer holds now
    call,              \* schedule engine harness: the arguments
    ret,               \* schedule engine harness: the last result
    msg                \* telegram.py harness: one call of a function of telegram.py

vars == <<world, users, clock, mainpc, LOCATION_STATUS, LOCATION_USERS, active_pairs,
          user_pair_map, full_pairs, seen_listings, first_run, location_updates,
          notifying, tasks, cur, emitted, acts, seenAtFetch, visited,
          notifiedBy, seededFirst, flipped, bcastCycle, lastBroadcast, stored,
          call, ret, msg>>

sysVars == <<world, users, clock, mainpc, LOCATION_STATUS, LOCATION_USERS, active_pairs,
             user_pair_map, full_pairs, seen_listings, first_run, location_updates,
             notifying, tasks, cur, emitted, acts, seenAtFetch, visited,
             notifiedBy, seededFirst, flipped, bcastCycle, lastBroadcast, stored>>

NoTask == <<>>
EmptyMap == [k \in {} |-> 0]
Now == Timeline[clock]

\* The listing records a results page can hold: two well-formed ones, one
\* without a price element and one whose anchor has no href.
RecA == [link |-> "/item/A", price |-> "$500", title |-> "Red Bike"]
RecB == [link |-> "/item/B", price |-> "$80", title |-> "Bike PARTS"]
RecNoPrice == [link |-> "/item/C", price |-> None, title |-> "Old bike"]
RecNoHref == [link |-> "", price |-> "$20", title |-> "Bike bell"]
Records == {RecA, RecB, RecNoPrice, RecNoHref}

\* Two more incomplete records: no title element, no anchor element.
RecNoTitle == [link |-> "/item/D", price |-> "$60", title |-> None]
RecNoAnchor == [link |-> None, price |-> "$70", title |-> "Bike bell"]
Incomplete == {RecNoPrice, RecNoHref, RecNoTitle, RecNoAnchor}

\* A page lists a record once.
Distinct(page) == \A m, n \in DOMAIN page : m # n => page[m] # page[n]
Links == {r.link : r \in Records \cup Incomplete} \ {"", None}

MaxListings == 2

\* The pages a fetch can return: up to MaxListings records in any order.
Pages == UNION {{page \in [1..n -> Records] : Distinct(page)} : n \in 1..MaxListings}

\* What product_checker can answer.
ClassResults ==
    [preferred : {0, 1}, is_good_deal : BOOLEAN, near_good_deal : BOOLEAN,
     raised : {FALSE}]

GoodDeal == [preferred |-> 1, is_good_deal |-> TRUE, near_good_deal |-> FALSE,
             raised |-> FALSE]

\* The runs explored.  A world fixes the user list and what the outside can
\* do during the run: the pages a fetch may show, how far the clock gets,
\* the answers of the classifier, whether collaborators may fail, the user
\* records the persistence layer holds after they were changed during the
\* run (none: they are not changed), and the instant the process starts at.
Worlds ==
    { [users |-> SharedUsers, pages |-> {<<RecA>>}, horizon |-> Len(Timeline),
       classes |-> {GoodDeal}, faults |-> FALSE, later |-> <<>>, start |-> 1],
      [users |-> ZoneUsers, pages |-> {<<RecA>>}, horizon |-> Len(Timeline),
       classes |-> {GoodDeal}, faults |-> FALSE, later |-> <<>>, start |-> 1],
      [users |-> SharedUsers, pages |-> Pages, horizon |-> 1,
       classes |-> {GoodDeal}, faults |-> FALSE, later |-> <<>>, start |-> 1],
      [users |-> PipelineUsers, pages |-> Pages, horizon |-> 1,
       classes |-> ClassResults, faults |-> TRUE, later |-> <<>>, start |-> 1],
      [users |-> DupUsers, pages |-> {<<RecA>>, <<RecB>>}, horizon |-> 1,
       classes |-> {GoodDeal}, faults |-> FALSE, later |-> <<>>, start |-> 1],
      [users |-> ModeUsers, pages |-> {<<RecA>>, <<RecB>>}, horizon |-> 1,
       classes |-> ClassResults, faults |-> FALSE, later |-> <<>>, start |-> 1],
      [users |-> ScenarioUsers, pages |-> {<<RecA>>, <<RecA, RecB>>}, horizon |-> 1,
       classes |-> {GoodDeal}, faults |-> FALSE, later |-> ScenarioUsersLater, start |-> 1],
      [users |-> ScenarioUsers,
       pages |-> {<<RecNoTitle, RecA>>, <<RecNoAnchor, RecB>>, <<RecNoPrice, RecNoHref>>},
       horizon |-> 1, classes |-> {GoodDeal}, faults |-> FALSE, later |-> <<>>, start |-> 1],
      [users |-> ScenarioUsers, pages |-> {<<RecA>>, <<RecB>>}, horizon |-> 2,
       classes |-> {GoodDeal}, faults |-> FALSE, later |-> <<>>, start |-> 1],
      [users |-> ScenarioUsers, pages |-> {<<RecA>>, <<RecB>>}, horizon |-> 3,
       classes |-> {GoodDeal}, faults |-> FALSE, later |-> <<>>, start |-> 2],
      [users |-> ScenarioUsers, pages |-> {<<RecNoPrice>>}, horizon |-> 2,
       classes |-> {GoodDeal}, faults |-> TRUE, later |-> <<>>, start |-> 1],
      [users |-> ZoneUsers, pages |-> {<<RecNoPrice>>}, horizon |-> 1,
       classes |-> {GoodDeal}, faults |-> TRUE, later |-> <<>>, start |-> 1] }

UserConfigs == {w.users : w \in Worlds}

\* Every (keyword, location) a user list of the model can give rise to.
AllPairs ==
    UNION {UNION {{<<us[i].keywords[n], us[i].location>> : n \in DOMAIN us[i].keywords} :
                     i \in DOMAIN us} : us \in UserConfigs}

AllKeys == UNION {{Lower(us[i].location) : i \in DOMAIN us} : us \in UserConfigs}

IdleFrame ==
    [pc |-> "idle", is_active |-> FALSE, listings |-> <<>>, j |-> 0,
     deal_message |-> "", partial_sent_map |-> <<>>, latitude |-> None,
     longitude |-> None,
     address |-> "Unknown Address", e |-> 0]

SysStart ==
    /\ users = world.users
    /\ clock = world.start
    /\ mainpc = "boot"
    /\ LOCATION_STATUS = EmptyMap
    /\ LOCATION_USERS = EmptyMap
    /\ active_pairs = {}
    /\ user_pair_map = EmptyMap
    /\ full_pairs = {}
    /\ seen_listings = {}
    /\ first_run = EmptyMap
    /\ location_updates = EmptyMap
    /\ notifying = None
    /\ tasks = [p \in AllPairs |-> IdleFrame]
    /\ cur = NoTask
    /\ emitted = {}
    /\ acts = [p \in AllPairs |-> {}]
    /\ seenAtFetch = [p \in AllPairs |-> {}]
    /\ visited = [p \in AllPairs |-> {}]
    /\ notifiedBy = [l \in Links |-> {}]
    /\ seededFirst = {}
    /\ flipped = {}
    /\ bcastCycle = [k \in AllKeys |-> 0]
    /\ lastBroadcast = [k \in AllKeys |-> "none"]
    /\ stored = world.users

SysInit == world \in Worlds /\ SysStart

\* ------------------------------------------------------------------------
\* Status broadcasts
\* ------------------------------------------------------------------------

\* notify_status_change(location, is_active, ...): the broadcast it starts,
\* none when the location has no entry in LOCATION_USERS (line 121).
notify_status_change(k, is_active, phase) ==
    IF k \notin DOMAIN LOCATION_USERS THEN {}
    ELSE {[location |-> k, is_active |-> is_active, to |-> LOCATION_USERS[k],
           had_entry |-> k \in DOMAIN LOCATION_STATUS,
           stored |-> IF k \in DOMAIN LOCATION_STATUS
                      THEN LOCATION_STATUS[k].is_active ELSE is_active,
           phase |-> phase]}

\* The outcomes a collaborator call can have in this run.
Outcomes(ok, failures) == IF world.faults THEN ok \cup failures ELSE ok

\* Lines 140-141: the sends are gathered without return_exceptions, and
\* send_message catches TelegramError only, so any other exception of the
\* transport leaves notify_status_change through the await.
BroadcastOutcomes == Outcomes({"sent"}, {"raised"})

Count(ev) == [k \in AllKeys |->
                 IF \E b \in ev : b.location = k
                 THEN (IF bcastCycle[k] < 2 THEN bcastCycle[k] + 1 ELSE 2)
                 ELSE bcastCycle[k]]

\* The message of lines 126-137: "resumed" or "paused".
Announced(is_active) == IF is_active THEN "resumed" ELSE "paused"

Last(ev) == [k \in AllKeys |->
                IF \E b \in ev : b.location = k
                THEN Announced((CHOOSE b \in ev : b.location = k).is_active)
                ELSE lastBroadcast[k]]

\* Variant: any recorded location counts as changed.
StatusDiffersAlways(status, k, is_active) == k \in DOMAIN status

\* The test of lines 186, 224, 232 and 460-461.
StatusDiffers(status, k, is_active) ==
    k \in DOMAIN status /\ status[k].is_active # is_active

\* An uncaught exception leaves monitor_all_pairs_together: the loop ends.
\* location_users and location_status are the two globals as the raising
\* call left them.
CrashWith(location_users, location_status) ==
    /\ mainpc' = "crashed"
    /\ cur' = NoTask
    /\ emitted' = {}
    /\ LOCATION_USERS' = location_users
    /\ LOCATION_STATUS' = location_status
    /\ UNCHANGED <<call, ret, msg, stored, world, users, clock, active_pairs,
                   user_pair_map, full_pairs, seen_listings, first_run,
                   location_updates, notifying, tasks, acts, seenAtFetch, visited,
                   notifiedBy, seededFirst, flipped, bcastCycle, lastBroadcast>>

\* An exception raised where neither global has been written.
Crash == CrashWith(LOCATION_USERS, LOCATION_STATUS)

\* ------------------------------------------------------------------------
\* monitor_all_pairs_together
\* ------------------------------------------------------------------------

\* Lines 477-494: the first compile, the run's seen set and first-run
\* flags, and the first observation of every location.
Boot ==
    /\ mainpc = "boot"
    /\ LET g == generate_pairs_and_log(users, Now, LOCATION_STATUS)
       IN IF g.raised THEN CrashWith(g.LOCATION_USERS, g.LOCATION_STATUS)
          ELSE LET fp == DOMAIN g.user_pair_map
                   keys == {Lower(p[2]) : p \in fp}
                   st == [k \in DOMAIN g.LOCATION_STATUS \cup keys |->
                             IF k \in DOMAIN g.LOCATION_STATUS THEN g.LOCATION_STATUS[k]
                             ELSE get_monitoring_schedule(
                                      (CHOOSE q \in fp : Lower(q[2]) = k)[2], Now)]
               IN /\ active_pairs' = g.active_pairs
                  /\ user_pair_map' = g.user_pair_map
                  /\ LOCATION_USERS' = g.LOCATION_USERS
                  /\ LOCATION_STATUS' = st
                  /\ full_pairs' = fp
                  /\ seen_listings' = {}
                  /\ first_run' = [q \in fp |-> TRUE]
                  /\ mainpc' = "init_notify"
                  /\ emitted' = {}
                  /\ UNCHANGED <<call, ret, msg, stored, world, users, clock, location_updates, notifying, tasks, cur,
                                 acts, seenAtFetch, visited, notifiedBy, seededFirst, flipped,
                                 bcastCycle, lastBroadcast>>

\* Lines 497-504: one initial status notification per recorded location
\* that has subscribers; the loop is entered when none is left.
\* location_updates holds the locations already notified.
InitNotify ==
    /\ mainpc = "init_notify"
    /\ LET todo == (DOMAIN LOCATION_STATUS \cap DOMAIN LOCATION_USERS)
                        \ DOMAIN location_updates
       IN IF todo = {}
          THEN /\ mainpc' = "top"
               /\ location_updates' = EmptyMap
               /\ emitted' = {}
               /\ UNCHANGED <<notifying, bcastCycle, lastBroadcast>>
          ELSE \E k \in todo :
               LET ev == notify_status_change(k, LOCATION_STATUS[k].is_active, "initial")
               IN /\ emitted' = ev
                  /\ bcastCycle' = Count(ev)
                  /\ lastBroadcast' = Last(ev)
                  /\ notifying' = k
                  /\ location_updates' = (k :> TRUE) @@ location_updates
                  /\ mainpc' = "init_wait"
    /\ UNCHANGED <<call, ret, msg, stored, world, users, clock, LOCATION_STATUS, LOCATION_USERS, active_pairs,
                   user_pair_map, full_pairs, seen_listings, first_run, tasks, cur,
                   acts, seenAtFetch, visited, notifiedBy, seededFirst, flipped>>

\* The await of line 499 returns, or raises: it is inside no try.
InitNotified ==
    /\ mainpc = "init_wait"
    /\ \E outcome \in BroadcastOutcomes :
          IF outcome = "raised" THEN Crash
          ELSE /\ mainpc' = "init_notify"
               /\ notifying' = None
               /\ emitted' = {}
               /\ UNCHANGED <<call, ret, msg, stored, world, users, clock, LOCATION_STATUS,
                              LOCATION_USERS, active_pairs,
                              user_pair_map, full_pairs, seen_listings, first_run,
                              location_updates, tasks, cur, acts, seenAtFetch, visited,
                              notifiedBy, seededFirst, flipped, bcastCycle, lastBroadcast>>

\* Line 508: the compile at the top of a cycle.
LoopTop ==
    /\ mainpc = "top"
    /\ LET g == generate_pairs_and_log(users, Now, LOCATION_STATUS)
       IN IF g.raised THEN CrashWith(g.LOCATION_USERS, g.LOCATION_STATUS)
          ELSE /\ active_pairs' = g.active_pairs
               /\ user_pair_map' = g.user_pair_map
               /\ LOCATION_USERS' = g.LOCATION_USERS
               /\ LOCATION_STATUS' = g.LOCATION_STATUS
               /\ flipped' = {k \in {Lower(q[2]) : q \in full_pairs} :
                                StatusDiffers(LOCATION_STATUS, k,
                                    get_monitoring_schedule(k, Now).is_active)}
               /\ bcastCycle' = [k \in AllKeys |-> 0]
               /\ UNCHANGED lastBroadcast
               /\ mainpc' = "schedules"
               /\ emitted' = {}
               /\ UNCHANGED <<call, ret, msg, stored, world, users, clock, full_pairs, seen_listings, first_run,
                              location_updates, notifying, tasks, cur, acts,
                              seenAtFetch, visited, notifiedBy, seededFirst>>

\* Lines 453-463: check_and_update_schedules collects the changed locations.
CheckSchedules ==
    /\ mainpc = "schedules"
    /\ IF \E q \in full_pairs : is_monitoring_active(q[2], Now).raised THEN Crash
       ELSE /\ location_updates' =
                  [k \in {Lower(q[2]) : q \in {x \in full_pairs :
                              StatusDiffers(LOCATION_STATUS, Lower(x[2]),
                                  is_monitoring_active(x[2], Now).is_active)}} |->
                      is_monitoring_active(k, Now).is_active]
            /\ mainpc' = "updates"
            /\ emitted' = {}
            /\ UNCHANGED <<call, ret, msg, stored, world, users, clock, LOCATION_STATUS, LOCATION_USERS, active_pairs,
                           user_pair_map, full_pairs, seen_listings, first_run,
                           notifying, tasks, cur, acts, seenAtFetch, visited, notifiedBy,
                           seededFirst, flipped, bcastCycle, lastBroadcast>>

\* Lines 466-468 for one changed location: the broadcast, then (after the
\* await, when there was one) the refreshed entry.
NotifyUpdate ==
    /\ mainpc = "updates"
    /\ location_updates # EmptyMap
    /\ \E k \in DOMAIN location_updates :
          LET ev == notify_status_change(k, location_updates[k], "tracker")
              sch == get_monitoring_schedule(k, Now)
          IN IF ev # {}
             THEN /\ emitted' = ev
                  /\ bcastCycle' = Count(ev)
                  /\ lastBroadcast' = Last(ev)
                  /\ notifying' = k
                  /\ mainpc' = "update_wait"
                  /\ UNCHANGED <<call, ret, msg, stored, world, users, clock, LOCATION_STATUS, LOCATION_USERS,
                                 active_pairs, user_pair_map, full_pairs, seen_listings,
                                 first_run, location_updates, tasks, cur, acts,
                                 seenAtFetch, visited, notifiedBy, seededFirst, flipped>>
             ELSE IF sch.raised THEN Crash
             ELSE /\ LOCATION_STATUS' = [LOCATION_STATUS EXCEPT ![k] = sch]
                  /\ location_updates' =
                        [x \in DOMAIN location_updates \ {k} |-> location_updates[x]]
                  /\ emitted' = {}
                  /\ UNCHANGED <<call, ret, msg, stored, world, users, clock, mainpc, LOCATION_USERS, active_pairs,
                                 user_pair_map, full_pairs, seen_listings, first_run,
                                 notifying, tasks, cur, acts, seenAtFetch, visited, notifiedBy,
                                 seededFirst, flipped, bcastCycle, lastBroadcast>>

\* Line 468, after the await of line 467, which may raise.
UpdateStored ==
    /\ mainpc = "update_wait"
    /\ \E outcome \in BroadcastOutcomes :
       LET sch == get_monitoring_schedule(notifying, Now)
       IN IF outcome = "raised" \/ sch.raised THEN Crash
          ELSE /\ LOCATION_STATUS' = [LOCATION_STATUS EXCEPT ![notifying] = sch]
               /\ location_updates' =
                     [k \in DOMAIN location_updates \ {notifying} |-> location_updates[k]]
               /\ notifying' = None
               /\ mainpc' = "updates"
               /\ emitted' = {}
               /\ UNCHANGED <<call, ret, msg, stored, world, users, clock, LOCATION_USERS, active_pairs, user_pair_map,
                              full_pairs, seen_listings, first_run, tasks, cur, acts,
                              seenAtFetch, visited, notifiedBy, seededFirst, flipped, bcastCycle, lastBroadcast>>

\* Lines 514-519 and 524-528: the fan-out, or the long wait.
Dispatch ==
    /\ mainpc = "updates"
    /\ location_updates = EmptyMap
    /\ IF active_pairs # {}
       THEN /\ tasks' = [p \in AllPairs |->
                            IF p \in active_pairs THEN [IdleFrame EXCEPT !.pc = "ready"]
                            ELSE IdleFrame]
            /\ mainpc' = "gather"
       ELSE /\ mainpc' = "sleep"
            /\ UNCHANGED tasks
    /\ emitted' = {}
    /\ UNCHANGED <<call, ret, msg, stored, world, users, clock, LOCATION_STATUS, LOCATION_USERS, active_pairs,
                   user_pair_map, full_pairs, seen_listings, first_run,
                   location_updates, notifying, cur, acts, seenAtFetch, visited, notifiedBy,
                   seededFirst, flipped, bcastCycle, lastBroadcast>>

\* Variant: the gather returns with the first task that finishes.
AnyFinished(ps) == \E p \in ps : tasks[p].pc = "done"

\* asyncio.gather(*tasks) of line 519 has its result when every task has one.
AllFinished(ps) == \A p \in ps : tasks[p].pc = "done"

\* Line 519 raises: a task of the cycle has ended with an exception, which
\* asyncio.gather (no return_exceptions) hands to the loop.  The callback
\* that does so was queued after the first step of every task the gather
\* created, so no task is still unstarted; the other tasks are not
\* cancelled and stay where they are.
GatherRaises ==
    /\ mainpc = "gather"
    /\ cur = NoTask
    /\ \E p \in active_pairs : tasks[p].pc = "raised"
    /\ \A p \in active_pairs : tasks[p].pc # "ready"
    /\ mainpc' = "crashed"
    /\ emitted' = {}
    /\ UNCHANGED <<call, ret, msg, stored, world, users, clock, LOCATION_STATUS, LOCATION_USERS, active_pairs,
                   user_pair_map, full_pairs, seen_listings, first_run,
                   location_updates, notifying, tasks, cur, acts, seenAtFetch, visited,
                   notifiedBy, seededFirst, flipped, bcastCycle, lastBroadcast>>

\* Line 519 returns: every task of the cycle has finished.
GatherDone ==
    /\ mainpc = "gather"
    /\ cur = NoTask
    /\ AllFinished(active_pairs)
    /\ mainpc' = "sleep"
    /\ tasks' = [p \in AllPairs |-> IdleFrame]
    /\ acts' = [p \in AllPairs |-> {}]
    /\ seenAtFetch' = [p \in AllPairs |-> {}]
    /\ visited' = [p \in AllPairs |-> {}]
    /\ emitted' = {}
    /\ UNCHANGED <<call, ret, msg, stored, world, users, clock, LOCATION_STATUS, LOCATION_USERS, active_pairs,
                   user_pair_map, full_pairs, seen_listings, first_run,
                   location_updates, notifying, cur, notifiedBy,
                   seededFirst, flipped, bcastCycle, lastBroadcast>>

\* Lines 523 and 528: the sleep between two cycles ends.
Wake ==
    /\ mainpc = "sleep"
    /\ mainpc' = "top"
    /\ emitted' = {}
    /\ UNCHANGED <<call, ret, msg, stored, world, users, clock, LOCATION_STATUS, LOCATION_USERS, active_pairs,
                   user_pair_map, full_pairs, seen_listings, first_run,
                   location_updates, notifying, tasks, cur, acts, seenAtFetch, visited,
                   notifiedBy, seededFirst, flipped, bcastCycle, lastBroadcast>>

\* The user records of the persistence layer are changed from outside while
\* the loop sleeps between two cycles.
StoreChange ==
    /\ mainpc = "sleep"
    /\ world.later # <<>>
    /\ stored # world.later
    /\ stored' = world.later
    /\ emitted' = {}
    /\ UNCHANGED <<call, ret, msg, world, users, clock, mainpc, LOCATION_STATUS,
                   LOCATION_USERS, active_pairs, user_pair_map, full_pairs, seen_listings,
                   first_run, location_updates, notifying, tasks, cur, acts, seenAtFetch,
                   visited, notifiedBy, seededFirst, flipped, bcastCycle, lastBroadcast>>

\* The positions at which a task is created and not started, or suspended in
\* an await (lines 224/233, 246, 330, 351, 417/436).
Awaiting == {"ready", "status_wait", "load_wait", "send_wait", "detail_wait",
             "edit_wait", "fallback_wait"}

\* Time passes while no coroutine runs: during an await of the loop or of a
\* task (also of a task left suspended when the loop has ended), and between
\* the compile and the schedule check (which write files in between).
Tick ==
    /\ clock < world.horizon
    /\ cur = NoTask
    /\ \/ mainpc \in {"init_wait", "schedules", "update_wait", "sleep"}
       \/ mainpc \in {"gather", "crashed"} /\ \E p \in active_pairs : tasks[p].pc \in Awaiting
    /\ clock' = clock + 1
    /\ emitted' = {}
    /\ UNCHANGED <<call, ret, msg, stored, world, users, mainpc, LOCATION_STATUS, LOCATION_USERS, active_pairs,
                   user_pair_map, full_pairs, seen_listings, first_run,
                   location_updates, notifying, tasks, cur, acts, seenAtFetch, visited,
                   notifiedBy, seededFirst, flipped, bcastCycle, lastBroadcast>>

\* ------------------------------------------------------------------------
\* check_marketplace_pair: one coroutine per dispatched pair.  A coroutine
\* runs from one await to the next without interruption (cur).
\* ------------------------------------------------------------------------

loopVars == <<call, ret, msg, stored, world, users, clock, mainpc, LOCATION_USERS, active_pairs, user_pair_map,
              full_pairs, location_updates, notifying, flipped>>

Frame(W) == tasks[W]

\* The frame of a finished coroutine, and the frame at the next record of the
\* page (locals that are overwritten before their next use are dropped; the
\* loop over the page keeps the records it has not reached yet, and a
\* coroutine that ends early leaves them in its frame, the record it was at
\* first).
Finished(W) ==
    [tasks EXCEPT ![W] = [IdleFrame EXCEPT !.pc = "done", !.listings = tasks[W].listings]]
Advance(W) ==
    [tasks EXCEPT ![W] = [IdleFrame EXCEPT !.pc = "listing",
                                           !.listings = Tail(tasks[W].listings)]]

\* The tasks of a cycle run while the loop waits in the gather of line 519;
\* those still suspended when the gather has raised are not cancelled by it
\* and go on for as long as the event loop runs.
Running(W, pc) == mainpc \in {"gather", "crashed"} /\ cur = W /\ tasks[W].pc = pc
Resumes(W, pc) == mainpc \in {"gather", "crashed"} /\ cur = NoTask /\ tasks[W].pc = pc

\* An exception leaves check_marketplace_pair (lines 217, 225-226, 233-234
\* and 242 are inside no try): the task ends with it.
TaskRaises(W) ==
    /\ tasks' = [tasks EXCEPT ![W] = [IdleFrame EXCEPT !.pc = "raised"]]
    /\ cur' = NoTask
    /\ emitted' = {}
    /\ UNCHANGED <<loopVars, LOCATION_STATUS, seen_listings, first_run, acts, seenAtFetch,
                   visited, notifiedBy, seededFirst, bcastCycle, lastBroadcast>>

\* Variant: the poll goes on whatever the schedule says.
PollsAlways(is_active) == TRUE

\* Line 220: the task goes on to the poll when the location is active.
Polls(is_active) == is_active

\* Lines 214-235: the schedule test at the start of the task and the status
\* broadcast of the poller.
TaskStart(W) ==
    /\ Resumes(W, "ready")
    /\ LET r == is_monitoring_active(W[2], Now)
           k == Lower(W[2])
           ev == notify_status_change(k, r.is_active, "poller")
       IN IF r.raised THEN TaskRaises(W)
          ELSE IF StatusDiffers(LOCATION_STATUS, k, r.is_active) /\ ev # {}
          THEN /\ emitted' = ev
               /\ bcastCycle' = Count(ev)
               /\ lastBroadcast' = Last(ev)
               /\ tasks' = [tasks EXCEPT ![W].pc = "status_wait",
                                         ![W].is_active = r.is_active]
               /\ UNCHANGED <<loopVars, cur, LOCATION_STATUS, seen_listings, first_run,
                              acts, seenAtFetch, visited, notifiedBy, seededFirst>>
          ELSE /\ LOCATION_STATUS' =
                     IF StatusDiffers(LOCATION_STATUS, k, r.is_active)
                     THEN [LOCATION_STATUS EXCEPT ![k] = get_monitoring_schedule(W[2], Now)]
                     ELSE LOCATION_STATUS
               /\ tasks' = IF Polls(r.is_active) THEN [tasks EXCEPT ![W].pc = "opening"]
                           ELSE Finished(W)
               /\ cur' = IF Polls(r.is_active) THEN W ELSE NoTask
               /\ emitted' = {}
               /\ UNCHANGED <<loopVars, seen_listings, first_run, acts, seenAtFetch,
                              visited, notifiedBy, seededFirst, bcastCycle, lastBroadcast>>

\* Lines 226-229 and 234-235, after the await of the broadcast (lines 225
\* and 233, before the try of line 244), which may raise.
StatusNotified(W) ==
    /\ Resumes(W, "status_wait")
    /\ \E outcome \in BroadcastOutcomes :
       LET sch == get_monitoring_schedule(W[2], Now)
       IN IF outcome = "raised" \/ sch.raised THEN TaskRaises(W)
          ELSE /\ LOCATION_STATUS' = [LOCATION_STATUS EXCEPT ![Lower(W[2])] = sch]
               /\ tasks' = IF Polls(Frame(W).is_active)
                           THEN [tasks EXCEPT ![W].pc = "opening", ![W].is_active = FALSE]
                           ELSE Finished(W)
               /\ cur' = IF Polls(Frame(W).is_active) THEN W ELSE NoTask
               /\ emitted' = {}
               /\ UNCHANGED <<loopVars, seen_listings, first_run, acts, seenAtFetch,
                              visited, notifiedBy, seededFirst, bcastCycle, lastBroadcast>>

\* Lines 241-246: the browser is created outside the try block, the page is
\* requested inside it.
OpenDriver(W) ==
    /\ Running(W, "opening")
    /\ \E outcome \in Outcomes({"ok"}, {"driver_error", "get_error"}) :
          IF outcome = "driver_error" THEN TaskRaises(W)
          ELSE /\ tasks' = IF outcome = "ok" THEN [tasks EXCEPT ![W].pc = "load_wait"]
                           ELSE Finished(W)
               /\ cur' = NoTask
               /\ emitted' = {}
               /\ UNCHANGED <<loopVars, LOCATION_STATUS, seen_listings, first_run, acts,
                              seenAtFetch, visited, notifiedBy, seededFirst, bcastCycle, lastBroadcast>>

\* Lines 247-254: the results page is read, or the wait for it raises
\* (caught at line 446).
PageLoaded(W) ==
    /\ Resumes(W, "load_wait")
    /\ \/ /\ world.faults
          /\ tasks' = Finished(W)
          /\ UNCHANGED <<cur, seenAtFetch>>
       \/ \E page \in world.pages :
             /\ tasks' = [tasks EXCEPT ![W].pc = "listing", ![W].listings = page]
             /\ cur' = W
             /\ seenAtFetch' = [seenAtFetch EXCEPT ![W] = seen_listings]
    /\ emitted' = {}
    /\ UNCHANGED <<loopVars, LOCATION_STATUS, seen_listings, first_run, acts, visited,
                   notifiedBy, seededFirst, bcastCycle, lastBroadcast>>

\* Variant: the price element is not asked for.
WellFormedNoPrice(rec) == rec.link # None /\ rec.title # None /\ rec.link # ""

\* Variant: every link of the page is recorded with the one notified.
MarkSeenAllLinks(seen, link) == seen \cup Links

\* Lines 261-266: the record has its three elements and a link.
WellFormed(rec) == rec.link # None /\ rec.price # None /\ rec.title # None /\ rec.link # ""

\* Variant: the membership test left out.
IsSeenNever(seen, link) == FALSE

\* Line 276.
IsSeen(seen, link) == link \in seen

\* Variant: seeding keeps only the latest link.
SeedSeenReplaces(seen, link) == {link}

\* Line 272.
SeedSeen(seen, link) == seen \cup {link}

\* Variant: the link of a notified listing is not recorded.
MarkSeenDropped(seen, link) == seen

\* Line 278.
MarkSeen(seen, link) == seen \cup {link}

\* Variant: the first-run test left out.
SeedsNever(flags, W) == FALSE

\* Line 271: the record is only stored.
SeedsOnly(flags, W) == flags[W]

\* Variant: the flag is left as it was after the last record.
ClearFlagNot(flags, W) == flags

\* Line 444.
ClearFlag(flags, W) == [flags EXCEPT ![W] = FALSE]

\* Lines 256-280 for the next record, and line 444 after the last one.
NextListing(W) ==
    /\ Running(W, "listing")
    /\ LET f == Frame(W)
           rec == Head(f.listings)
       IN IF f.listings = <<>>
          THEN /\ first_run' = ClearFlag(first_run, W)
               /\ tasks' = Finished(W)
               /\ cur' = NoTask
               /\ UNCHANGED <<seen_listings, visited, acts, notifiedBy, seededFirst>>
          ELSE IF ~WellFormed(rec)
          THEN /\ tasks' = Advance(W)
               /\ UNCHANGED <<cur, first_run, seen_listings, visited, acts, notifiedBy,
                              seededFirst>>
          ELSE IF SeedsOnly(first_run, W)
          THEN /\ seen_listings' = SeedSeen(seen_listings, rec.link)
               /\ seededFirst' = IF rec.link \in seen_listings THEN seededFirst
                                 ELSE seededFirst \cup {rec.link}
               /\ visited' = [visited EXCEPT ![W] = @ \cup {rec.link}]
               /\ tasks' = Advance(W)
               /\ UNCHANGED <<cur, first_run, acts, notifiedBy>>
          ELSE IF IsSeen(seen_listings, rec.link)
          THEN /\ tasks' = Advance(W)
               /\ visited' = [visited EXCEPT ![W] = @ \cup {rec.link}]
               /\ UNCHANGED <<cur, first_run, seen_listings, acts, notifiedBy, seededFirst>>
          ELSE /\ seen_listings' = MarkSeen(seen_listings, rec.link)
               /\ notifiedBy' = [notifiedBy EXCEPT ![rec.link] = @ \cup {W}]
               /\ visited' = [visited EXCEPT ![W] = @ \cup {rec.link}]
               /\ acts' = [acts EXCEPT ![W] = {}]
               /\ tasks' = [tasks EXCEPT ![W].pc = "subscriber", ![W].j = 1,
                                         ![W].partial_sent_map = <<>>]
               /\ UNCHANGED <<cur, first_run, seededFirst>>
    /\ emitted' = {}
    /\ UNCHANGED <<loopVars, LOCATION_STATUS, seenAtFetch, bcastCycle, lastBroadcast>>

\* ------------------------------------------------------------------------
\* The notification pipeline of check_marketplace_pair (lines 280-442)
\* ------------------------------------------------------------------------

\* str.lower() of the titles and excluded words of the model.
LowerText(t) ==
    CASE t = "Red Bike"   -> "red bike"
      [] t = "Bike PARTS" -> "bike parts"
      [] t = "Old bike"   -> "old bike"
      [] t = "Bike bell"  -> "bike bell"
      [] t = "Parts"      -> "parts"
      [] OTHER            -> t

\* a in b for two lower-case strings of the model.
Substring(a, b) ==
    \/ a = b
    \/ <<a, b>> \in {<<"parts", "bike parts">>, <<"bike", "red bike">>,
                     <<"bike", "bike parts">>, <<"bike", "old bike">>,
                     <<"bike", "bike bell">>, <<"bell", "bike bell">>,
                     <<"red", "red bike">>, <<"old", "old bike">>}

\* Variant: the words compared as written.
ExcludedCaseSensitive(user, title) ==
    \E n \in DOMAIN user.excluded_words : Substring(user.excluded_words[n], title)

\* Line 290.
Excluded(user, title) ==
    \E n \in DOMAIN user.excluded_words :
        Substring(LowerText(user.excluded_words[n]), LowerText(title))

\* Variant: the near_good_deals mode is not tested.
PassesModesNoNear(modes, result) ==
    /\ ~(modes.mode_only_preferred # 0 /\ result.preferred # 1)
    /\ ~(modes.good_deals # 0 /\ ~result.is_good_deal)

\* Lines 303-315: no active mode rejects the product.
PassesModes(modes, result) ==
    /\ ~(modes.mode_only_preferred # 0 /\ result.preferred # 1)
    /\ ~(modes.near_good_deals # 0 /\ ~(result.is_good_deal \/ result.near_good_deal))
    /\ ~(modes.good_deals # 0 /\ ~result.is_good_deal)

\* Variant: the message carries no label.
DealMessageUnlabelled(result) == ""

\* Lines 317-322.
DealMessage(result) ==
    IF result.is_good_deal THEN "Good Deal @ "
    ELSE IF result.near_good_deal THEN "Near Good Deal @ "
    ELSE ""

Act(kind, link, chat_id, message_id, text) ==
    [kind |-> kind, link |-> link, chat_id |-> chat_id, message_id |-> message_id,
     text |-> text]

NoMessage == <<>>

\* product_checker raised before it had a result.
NoResult == [preferred |-> 0, is_good_deal |-> FALSE, near_good_deal |-> FALSE,
             raised |-> TRUE]

\* partial_sent_map[chat_id] = entry, the dict kept in insertion order.
MapPut(map, entry) ==
    IF \E n \in DOMAIN map : map[n].chat_id = entry.chat_id
    THEN [n \in DOMAIN map |-> IF map[n].chat_id = entry.chat_id THEN entry ELSE map[n]]
    ELSE Append(map, entry)

\* Line 343: not partial_sent_map.
NothingSent(map) == map = <<>>

\* Variant: the loop over the subscribers ends one subscriber early.
AfterLastEarly(j, subs) == j >= Len(subs)

\* Line 282: the for loop over user_pair_map[pair] has passed every entry.
AfterLast(j, subs) == j > Len(subs)

\* Lines 282-351 for the next subscriber: the filters, the classification and
\* the provisional send; after the last one the detail view is opened
\* unless nothing was sent.  Lines 350 and 351 stand outside the try of
\* 352: when window.open raises the view has not been opened, when it
\* returns and the switch to the new tab raises the view has been opened,
\* and either way the poll ends at line 446.
Subscriber(W) ==
    /\ Running(W, "subscriber")
    /\ LET f == Frame(W)
           rec == Head(f.listings)
           subs == user_pair_map[W]
           user == subs[f.j]
           classified(result) ==
               Act("classify", rec.link, user.chat_id, <<rec.link, f.j>>, result)
       IN IF AfterLast(f.j, subs)
          THEN IF NothingSent(f.partial_sent_map)
               THEN /\ tasks' = Advance(W)
                    /\ UNCHANGED <<cur, acts>>
               ELSE \E outcome \in Outcomes({"opened"}, {"open_raise", "switch_raise"}) :
                    /\ tasks' = IF outcome = "opened"
                                THEN [tasks EXCEPT ![W].pc = "detail_wait"]
                                ELSE Finished(W)
                    /\ cur' = NoTask
                    /\ acts' = IF outcome = "open_raise"
                               THEN acts
                               ELSE [acts EXCEPT ![W] =
                                       @ \cup {Act("detail", rec.link, 0, NoMessage, "")}]
          ELSE IF Excluded(user, rec.title)
          THEN /\ tasks' = [tasks EXCEPT ![W].j = f.j + 1]
               /\ UNCHANGED <<cur, acts>>
          ELSE \/ \* product_checker raises: caught at line 446
                  /\ world.faults
                  /\ tasks' = Finished(W)
                  /\ cur' = NoTask
                  /\ acts' = [acts EXCEPT ![W] = @ \cup {classified(NoResult)}]
               \/ \E result \in world.classes :
                  IF PassesModes(user.modes, result)
                  THEN /\ tasks' = [tasks EXCEPT ![W].pc = "send_wait",
                                       ![W].deal_message = DealMessage(result)]
                       /\ cur' = NoTask
                       /\ acts' = [acts EXCEPT ![W] = @ \cup
                                     {classified(result),
                                      Act("send", rec.link, user.chat_id,
                                          <<rec.link, f.j>>, DealMessage(result))}]
                  ELSE /\ tasks' = [tasks EXCEPT ![W].j = f.j + 1]
                       /\ acts' = [acts EXCEPT ![W] = @ \cup {classified(result)}]
                       /\ UNCHANGED cur
    /\ emitted' = {}
    /\ UNCHANGED <<loopVars, LOCATION_STATUS, seen_listings, first_run, seenAtFetch,
                   visited, notifiedBy, seededFirst, bcastCycle, lastBroadcast>>

\* Variant: the entry is stored whatever send_message returned.
RecordedAlways(map, entry, outcome) == MapPut(map, entry)

\* Lines 331-337: the entry is stored when send_message returned a message.
Recorded(map, entry, outcome) ==
    IF outcome = "message" THEN MapPut(map, entry) ELSE map

\* Lines 330-341: send_message returns a message, returns None or raises.
SendReturns(W) ==
    /\ Resumes(W, "send_wait")
    /\ LET f == Frame(W)
           user == user_pair_map[W][f.j]
           entry == [chat_id |-> user.chat_id,
                     message_id |-> <<Head(f.listings).link, f.j>>,
                     deal_message |-> f.deal_message,
                     fixed_lat |-> user.fixed_lat, fixed_lon |-> user.fixed_lon]
       IN \E outcome \in Outcomes({"message"}, {"none", "raise"}) :
             /\ tasks' = [tasks EXCEPT ![W].pc = "subscriber", ![W].j = f.j + 1,
                             ![W].deal_message = "",
                             ![W].partial_sent_map = Recorded(@, entry, outcome)]
             /\ acts' = [acts EXCEPT ![W] =
                           IF outcome = "message"
                           THEN @ \cup {Act("sent", entry.message_id[1], entry.chat_id,
                                            entry.message_id, "")}
                           ELSE @]
    /\ cur' = W
    /\ emitted' = {}
    /\ UNCHANGED <<loopVars, LOCATION_STATUS, seen_listings, first_run,
                   seenAtFetch, visited, notifiedBy, seededFirst, bcastCycle, lastBroadcast>>

\* Lines 353-405: the detail page gives coordinates and an address,
\* coordinates only (reverse_geocode raised), a latitude only (float() of
\* the longitude text raised at 375 or 393, caught at 401), or nothing;
\* closing the tab may raise, which ends the poll at line 446.
DetailLoaded(W) ==
    /\ Resumes(W, "detail_wait")
    /\ \E outcome \in Outcomes({"address", "nothing"},
                             {"coordinates", "lat_only", "close_error"}) :
          IF outcome = "close_error"
          THEN /\ tasks' = Finished(W)
               /\ UNCHANGED cur
          ELSE /\ tasks' = [tasks EXCEPT ![W].pc = "editing", ![W].e = 1, ![W].j = 0,
                               ![W].latitude = IF outcome = "nothing" THEN None ELSE "-27.5",
                               ![W].longitude = IF outcome \in {"nothing", "lat_only"}
                                                THEN None ELSE "153.0",
                               ![W].address = IF outcome = "address" THEN "1 Main St"
                                              ELSE "Unknown Address"]
               /\ cur' = W
    /\ emitted' = {}
    /\ UNCHANGED <<loopVars, LOCATION_STATUS, seen_listings, first_run, acts,
                   seenAtFetch, visited, notifiedBy, seededFirst, bcastCycle, lastBroadcast>>

\* Variant: the distance is computed whatever was extracted.
CoordinatesMissingNever(latitude, longitude) == FALSE

\* Line 410: latitude is None or longitude is None.
CoordinatesMissing(latitude, longitude) == latitude = None \/ longitude = None

\* Lines 407-429 and 432-440 for the next entry of partial_sent_map: the
\* enriched edit, or the fallback edit when calculate_distance raised.
Edit(W) ==
    /\ Running(W, "editing")
    /\ LET f == Frame(W)
           rec == Head(f.listings)
           entry == f.partial_sent_map[f.e]
       IN IF f.e > Len(f.partial_sent_map)
          THEN /\ tasks' = Advance(W)
               /\ UNCHANGED <<cur, acts>>
          ELSE \E distance \in IF CoordinatesMissing(f.latitude, f.longitude) THEN {"Distance unknown"}
                               ELSE Outcomes({"12 km"}, {"raise"}) :
               LET text == IF distance = "raise"
                           THEN <<entry.deal_message, "Location update failed.">>
                           ELSE <<entry.deal_message, f.address, distance>>
                   measured == IF CoordinatesMissing(f.latitude, f.longitude) THEN {}
                               ELSE {Act("distance", rec.link, entry.chat_id,
                                         entry.message_id,
                                         <<f.latitude, IF distance = "raise" THEN "raise"
                                                       ELSE "ok">>)}
               IN /\ tasks' = [tasks EXCEPT ![W].pc =
                                  IF distance = "raise" THEN "fallback_wait" ELSE "edit_wait"]
                  /\ cur' = NoTask
                  /\ acts' = [acts EXCEPT ![W] = @ \cup measured \cup
                                {Act("edit", rec.link, entry.chat_id, entry.message_id, text)}]
    /\ emitted' = {}
    /\ UNCHANGED <<loopVars, LOCATION_STATUS, seen_listings, first_run, seenAtFetch,
                   visited, notifiedBy, seededFirst, bcastCycle, lastBroadcast>>

\* Variant: a fallback edit follows every failed edit.
FallsBackOnFailure(outcome) == outcome \in {"false", "raise"}

\* Line 432: the except clause is entered when the edit raised; a result of
\* False is logged at line 431.
FallsBack(outcome) == outcome = "raise"

\* Lines 429-440: edit_message returns True or False, or raises and the
\* fallback edit is started.
EditReturns(W) ==
    /\ Resumes(W, "edit_wait")
    /\ LET f == Frame(W)
           rec == Head(f.listings)
           entry == f.partial_sent_map[f.e]
           failed(outcome) ==
               IF outcome = "true" THEN {}
               ELSE {Act("edit_failed", rec.link, entry.chat_id, entry.message_id,
                         <<outcome>>)}
       IN \E outcome \in Outcomes({"true"}, {"false", "raise"}) :
             IF FallsBack(outcome)
             THEN /\ tasks' = [tasks EXCEPT ![W].pc = "fallback_wait"]
                  /\ acts' = [acts EXCEPT ![W] = @ \cup failed(outcome) \cup
                                {Act("edit", rec.link, entry.chat_id, entry.message_id,
                                     <<entry.deal_message, "Location update failed.">>)}]
                  /\ UNCHANGED cur
             ELSE /\ tasks' = [tasks EXCEPT ![W].pc = "editing", ![W].e = f.e + 1]
                  /\ cur' = W
                  /\ acts' = [acts EXCEPT ![W] = @ \cup failed(outcome)]
    /\ emitted' = {}
    /\ UNCHANGED <<loopVars, LOCATION_STATUS, seen_listings, first_run, seenAtFetch,
                   visited, notifiedBy, seededFirst, bcastCycle, lastBroadcast>>

\* Lines 440-442: the fallback edit returns or raises; either way the loop
\* goes on with the next entry.
FallbackReturns(W) ==
    /\ Resumes(W, "fallback_wait")
    /\ tasks' = [tasks EXCEPT ![W].pc = "editing", ![W].e = Frame(W).e + 1]
    /\ cur' = W
    /\ emitted' = {}
    /\ UNCHANGED <<loopVars, LOCATION_STATUS, seen_listings, first_run, acts,
                   seenAtFetch, visited, notifiedBy, seededFirst, bcastCycle, lastBroadcast>>

\* ------------------------------------------------------------------------
\* The program
\* ------------------------------------------------------------------------

NoCall == [location |-> "", utcnow |-> Timeline[1]]
NoReturn == [fn |-> "none", value |-> [raised |-> FALSE]]

\* No call of telegram.py is under way.
NoMessaging ==
    [fn |-> "none", transport |-> <<>>, messages |-> <<>>, m |-> 0, attempt |-> 0,
     pc |-> "idle", calls |-> 0, slept |-> <<>>, result |-> "pending"]

Init == SysInit /\ call = NoCall /\ ret = NoReturn /\ msg = NoMessaging

Next ==
    \/ Boot
    \/ InitNotify
    \/ InitNotified
    \/ LoopTop
    \/ CheckSchedules
    \/ NotifyUpdate
    \/ UpdateStored
    \/ Dispatch
    \/ GatherRaises
    \/ GatherDone
    \/ Wake
    \/ StoreChange
    \/ Tick
    \/ \E W \in AllPairs :
        \/ TaskStart(W)
        \/ StatusNotified(W)
        \/ OpenDriver(W)
        \/ PageLoaded(W)
        \/ NextListing(W)
        \/ Subscriber(W)
        \/ SendReturns(W)
        \/ DetailLoaded(W)
        \/ Edit(W)
        \/ EditReturns(W)
        \/ FallbackReturns(W)

Spec == Init /\ [][Next]_vars

\* ------------------------------------------------------------------------
\* The loop under fair scheduling, for a process that starts while its
\* location is paused.  No collaborator fails, the stored user records are
\* not changed and no status changes between a compile and the start of a
\* task, so the steps for those cases are never enabled and are left out.
\* ------------------------------------------------------------------------

LiveWorlds == {w \in Worlds : w.start > 1}

LiveInit ==
    /\ world \in LiveWorlds
    /\ SysStart
    /\ call = NoCall /\ ret = NoReturn /\ msg = NoMessaging

\* The steps of monitor_all_pairs_together.
LoopStep ==
    \/ Boot
    \/ InitNotify
    \/ InitNotified
    \/ LoopTop
    \/ CheckSchedules
    \/ NotifyUpdate
    \/ UpdateStored
    \/ Dispatch
    \/ GatherDone
    \/ Wake

\* The steps of the task of one pair.
TaskStep(W) ==
    \/ TaskStart(W)
    \/ OpenDriver(W)
    \/ PageLoaded(W)
    \/ NextListing(W)
    \/ Subscriber(W)
    \/ SendReturns(W)
    \/ DetailLoaded(W)
    \/ Edit(W)
    \/ EditReturns(W)

\* A step of the program, as opposed to the passing of time.
Progress == LoopStep \/ \E W \in AllPairs : TaskStep(W)

LiveNext == Progress \/ Tick

\* The event loop goes on while a coroutine can run, and every sleep and
\* collaborator call awaited returns; nothing is assumed about how far the
\* clock gets.
LiveSpec ==
    /\ LiveInit
    /\ [][LiveNext]_vars
    /\ WF_vars(Progress)

\* ------------------------------------------------------------------------
\* The schedule engine on its own: one call of either operation for a
\* location and an instant drawn from the sets below.
\* ------------------------------------------------------------------------

SchedLocations == {"Melbourne", "brisbane", "Perth"}

SchedInstants ==
    {[year |-> y, month |-> m, day |-> d, hour |-> h, minute |-> mi, second |-> 0,
      microsecond |-> us] :
        y \in {2024, 2025}, m \in {2, 7, 10, 12}, d \in {1, 4, 5, 28, 29, 30, 31},
        h \in 0..23, mi \in {0, 29, 30}, us \in {0, 1}}

SchedInit ==
    /\ world = CHOOSE w \in Worlds : w.users = SharedUsers /\ w.horizon = 1
    /\ SysStart
    /\ call \in {c \in [location : SchedLocations, utcnow : SchedInstants] :
                    c.utcnow.day <= DaysInMonth(c.utcnow.year, c.utcnow.month)}
    /\ ret = NoReturn
    /\ msg = NoMessaging

CallIsMonitoringActive ==
    /\ ret' = [fn |-> "is_monitoring_active",
               value |-> is_monitoring_active(call.location, call.utcnow)]
    /\ UNCHANGED <<call, msg, sysVars>>

CallGetMonitoringSchedule ==
    /\ ret' = [fn |-> "get_monitoring_schedule",
               value |-> get_monitoring_schedule(call.location, call.utcnow)]
    /\ UNCHANGED <<call, msg, sysVars>>

SchedNext == CallIsMonitoringActive \/ CallGetMonitoringSchedule

SchedSpec == SchedInit /\ [][SchedNext]_vars

\* ------------------------------------------------------------------------
\* telegram.py: one call of send_message, edit_message or
\* send_messages_sequentially against a transport whose answers to the
\* successive bot calls are drawn from the set below.
\* ------------------------------------------------------------------------

\* What one bot call can do: return, raise TelegramError, or raise anything
\* else (which the except clause of lines 25, 41 and 65 does not catch).
TransportOutcomes == {"ok", "TelegramError", "Exception"}

\* range(3) of lines 20, 36 and 60.
Attempts == 3

Transports == [1..Attempts -> TransportOutcomes]

\* The two functions that send or edit one message.
SingleMessage == {"send_message", "edit_message"}

MaxMessages == 2

\* The lists send_messages_sequentially is called with, each message named
\* by its chat id: up to MaxMessages messages.
MessageLists == {[i \in 1..n |-> i] : n \in 0..MaxMessages}

\* Variant: the loop is left after the first failure.
MoreAttemptsNone(attempt) == FALSE

\* range(3): the for loop has another iteration after this one.
MoreAttempts(attempt) == attempt + 1 < Attempts

\* Lines 27, 43 and 67: if attempt < 2.
Sleeps(attempt) == attempt < 2

\* Variant: the same delay before every retry.
BackoffFlat(attempt) == 2

\* Lines 28, 44 and 68: 2 ** (attempt + 1).
Backoff(attempt) == 2 ^ (attempt + 1)

\* Lines 24 and 64, and lines 31 and 71: what the two functions return.
Success(fn) == IF fn = "send_message" THEN "message" ELSE "True"
Failure(fn) == IF fn = "send_message" THEN "None" ELSE "False"

TelegramInit ==
    /\ world = CHOOSE w \in Worlds : w.users = SharedUsers /\ w.horizon = 1
    /\ SysStart
    /\ call = NoCall
    /\ ret = NoReturn
    /\ msg \in [fn : SingleMessage, transport : Transports,
                messages : {<<1>>}, m : {1},
                attempt : {0}, pc : {"try"}, calls : {0}, slept : {<<>>},
                result : {"pending"}]
            \cup UNION {[fn : {"send_messages_sequentially"},
                         transport : [1..(Attempts * Len(l)) -> TransportOutcomes],
                         messages : {l}, m : {0},
                         attempt : {0}, pc : {"called"}, calls : {0}, slept : {<<>>},
                         result : {"pending"}] : l \in MessageLists}

\* Line 35: the outer for loop of send_messages_sequentially takes the next
\* message of the list, or the function ends, returning None.
NextMessage(m) ==
    IF m.m < Len(m.messages)
    THEN [m EXCEPT !.m = m.m + 1, !.attempt = 0, !.pc = "try"]
    ELSE [m EXCEPT !.pc = "returned", !.result = "None"]

\* The for loop over the attempts goes on after attempt; or it is over, and
\* send_message and edit_message return their failure value (lines 31 and
\* 71) while send_messages_sequentially goes to its next message.
Continue(m) ==
    IF MoreAttempts(m.attempt)
    THEN [m EXCEPT !.attempt = m.attempt + 1, !.pc = "try"]
    ELSE IF m.fn \in SingleMessage
    THEN [m EXCEPT !.pc = "returned", !.result = Failure(m.fn)]
    ELSE NextMessage(m)

\* send_messages_sequentially is entered: lines 35-37 up to the first bot
\* call, or the return when the list is empty.
SequentialStart ==
    /\ msg.pc = "called"
    /\ msg' = NextMessage(msg)
    /\ UNCHANGED <<call, ret, sysVars>>

\* Lines 37-46: one bot call of send_messages_sequentially and what follows
\* it, up to the next await; a call that returns ends the attempts for this
\* message (break, line 40).
SequentialAttempt ==
    /\ msg.pc = "try"
    /\ msg.fn = "send_messages_sequentially"
    /\ LET outcome == msg.transport[msg.calls + 1]
           called == [msg EXCEPT !.calls = msg.calls + 1]
       IN msg' = CASE outcome = "ok" -> NextMessage(called)
                   [] outcome = "Exception" ->
                        [called EXCEPT !.pc = "raised", !.result = "raised"]
                   [] OTHER ->
                        IF Sleeps(msg.attempt)
                        THEN [called EXCEPT !.pc = "sleeping",
                                            !.slept = Append(@, Backoff(msg.attempt))]
                        ELSE Continue(called)
    /\ UNCHANGED <<call, ret, sysVars>>

\* Lines 21-30 and 61-70: one bot call and what follows it, up to the next
\* await.
Attempt ==
    /\ msg.pc = "try"
    /\ msg.fn \in SingleMessage
    /\ LET outcome == msg.transport[msg.attempt + 1]
           called == [msg EXCEPT !.calls = msg.calls + 1]
       IN msg' = CASE outcome = "ok" ->
                        [called EXCEPT !.pc = "returned", !.result = Success(msg.fn)]
                   [] outcome = "Exception" ->
                        [called EXCEPT !.pc = "raised", !.result = "raised"]
                   [] OTHER ->
                        IF Sleeps(msg.attempt)
                        THEN [called EXCEPT !.pc = "sleeping",
                                            !.slept = Append(@, Backoff(msg.attempt))]
                        ELSE Continue(called)
    /\ UNCHANGED <<call, ret, sysVars>>

\* The await of asyncio.sleep at lines 28, 44 and 68 returns.
SleepReturns ==
    /\ msg.pc = "sleeping"
    /\ msg' = Continue(msg)
    /\ UNCHANGED <<call, ret, sysVars>>

TelegramNext == Attempt \/ SequentialStart \/ SequentialAttempt \/ SleepReturns

\* The event loop resumes a coroutine whose awaited call has completed.
TelegramSpec == TelegramInit /\ [][TelegramNext]_vars /\ WF_vars(TelegramNext)

\* The local wall clock of the call.
LocalNow == astimezone(call.utcnow, get_location_timezone(call.location))

\* Seconds since local midnight.
LocalSecond == LocalNow.hour * 3600 + LocalNow.minute * 60 + LocalNow.second

Returned == ret.fn # "none"

\* ------------------------------------------------------------------------
\* Properties
\* ------------------------------------------------------------------------

InPipeline(W) ==
    tasks[W].pc \in {"subscriber", "send_wait", "detail_wait", "editing", "edit_wait",
                     "fallback_wait"}

\* C1: while a work item's first-run flag is set, every well-formed record
\* its poll has passed has its link in seen_listings, and the poll has made no
\* classification call, provisional send, detail visit or edit.
FirstRunSeedsOnly ==
    \A W \in full_pairs :
        first_run[W] =>
            /\ visited[W] \subseteq seen_listings
            /\ acts[W] = {}
            /\ ~InPipeline(W)

\* A first-run poll that has stored a record.
FirstRunSeeded ==
    \E W \in full_pairs :
        /\ first_run[W]
        /\ tasks[W].pc = "listing"
        /\ visited[W] # {}
        /\ visited[W] \subseteq seededFirst

\* C2: no poll of a work item sends a provisional message for a link that
\* was in seen_listings when the poll read its page.
NoResendOfSeenLink ==
    \A W \in AllPairs :
        \A a \in acts[W] : a.kind = "send" => a.link \notin seenAtFetch[W]

\* A later poll that met a link already seen and passed it without sending.
SeenLinkSkipped ==
    \E W \in full_pairs :
        /\ ~first_run[W]
        /\ tasks[W].pc = "listing"
        /\ visited[W] \cap seenAtFetch[W] # {}
        /\ acts[W] = {}

\* C3 (as claimed): at the end of a cycle every location that flipped since
\* the cycle before, and has subscribers, has had exactly one status
\* broadcast in the cycle.
FlipBroadcastOnce ==
    mainpc = "sleep" =>
        \A k \in flipped : k \in DOMAIN LOCATION_USERS => bcastCycle[k] = 1

\* C4 (as claimed): every status broadcast is for a location with a recorded
\* state that differs from the state broadcast.
BroadcastOnlyOnChange ==
    \A b \in emitted : b.had_entry /\ b.stored # b.is_active

\* C4 (amended): inside the polling loop every status broadcast is for a
\* location with a recorded state that differs from the state broadcast; the
\* only other broadcasts are the initial ones, made before the loop starts.
LoopBroadcastOnlyOnChange ==
    \A b \in emitted :
        IF b.phase = "initial" THEN mainpc = "init_wait"
        ELSE b.had_entry /\ b.stored # b.is_active

\* The status tracker broadcasts a change inside the loop.
TrackerBroadcast ==
    \E b \in emitted : b.phase = "tracker" /\ b.stored # b.is_active /\ b.to # {}

\* C5: a link runs the notification pipeline under at most one work item,
\* and never after it entered seen_listings by seeding.
SharedSeenNotifiesOnce ==
    \A l \in Links :
        /\ Cardinality(notifiedBy[l]) <= 1
        /\ l \in seededFirst => notifiedBy[l] = {}

\* Two work items polled in the same cycle both met the same new link: one
\* is suspended in the pipeline for it, the other passed it.
SameLinkTwoTasks ==
    \E W1, W2 \in full_pairs :
        \E l \in Links :
            /\ W1 # W2
            /\ notifiedBy[l] = {W1}
            /\ tasks[W1].pc = "send_wait"
            /\ Head(tasks[W1].listings).link = l
            /\ l \in visited[W2]
            /\ ~first_run[W2]

\* C6 (as claimed): the polling loop is never ended by an error.
LoopNeverAborts == mainpc # "crashed"

\* C7 (as claimed): a call of the schedule engine returns a value.
ScheduleNeverRaises == Returned => ~ret.value.raised

\* C8: is_monitoring_active reports active exactly when the local time is
\* neither at or after 22:00 nor at or before 06:30.
ActiveIffOutsideWindow ==
    ret.fn = "is_monitoring_active" =>
        ((~ret.value.raised /\ ret.value.is_active)
            <=> ~(\/ LocalSecond >= 22 * 3600
                  \/ LocalSecond < 6 * 3600 + 30 * 60
                  \/ LocalSecond = 6 * 3600 + 30 * 60 /\ LocalNow.microsecond = 0))

\* The last inactive instant of the morning was asked about.
InactiveAtWindowEnd ==
    /\ ret.fn = "is_monitoring_active"
    /\ TimeOf(LocalNow) = <<6, 30, 0, 0>>
    /\ ~ret.value.raised
    /\ ~ret.value.is_active

\* C9 (as claimed): at local time 06:30 exactly is_monitoring_active
\* reports active.
ActiveAtHalfPastSix ==
    (ret.fn = "is_monitoring_active" /\ TimeOf(LocalNow) = <<6, 30, 0, 0>>)
        => (~ret.value.raised /\ ret.value.is_active)

\* The next boundary after the local instant now, to the second.
NextBoundary(now) ==
    LET at(d, t) == <<d.year, d.month, d.day, t[1], t[2], 0>>
        sec == now.hour * 3600 + now.minute * 60 + now.second
    IN IF sec >= 22 * 3600 THEN at(NextDay(now), end_inactive)
       ELSE IF sec < 6 * 3600 + 30 * 60 \/ TimeOf(now) = end_inactive
       THEN at(now, end_inactive)
       ELSE at(now, start_inactive)

\* C10 (as claimed): the schedule engine returns, as next_change, the next
\* boundary of the window (22:00 today when active, the coming 06:30 when
\* inactive), which is not before the local time of the call.
NextChangeIsNextBoundary ==
    Returned =>
        /\ ~ret.value.raised
        /\ LET nc == IF ret.fn = "is_monitoring_active"
                     THEN FormatSeconds(ret.value.next_change)
                     ELSE ret.value.next_change
           IN /\ nc = NextBoundary(LocalNow)
              /\ ~DateTimeLT(fromisoformat(nc), [LocalNow EXCEPT !.microsecond = 0])

\* ------------------------------------------------------------------------
\* Properties of the notification pipeline
\* ------------------------------------------------------------------------

Kind(W, kind) == {a \in acts[W] : a.kind = kind}

\* The pipeline of the listing the acts of W belong to is over.
PipelineOver(W) == tasks[W].pc \in {"listing", "done"}

IsFallback(a) == a.kind = "edit" /\ Len(a.text) = 2

TitleOf(link) == (CHOOSE r \in Records : r.link = link).title

HasExcludedWord(config, title) ==
    \E n \in DOMAIN config.excluded_words :
        Substring(LowerText(config.excluded_words[n]), LowerText(title))

\* C11 (as claimed, for runs in which no collaborator call fails): when a
\* work item moves on from a listing, every provisional message whose send
\* succeeded has had an edit attempted on its message id.
EverySentMessageEdited ==
    \A W \in AllPairs :
        (~world.faults /\ PipelineOver(W)) =>
            \A a \in Kind(W, "sent") :
                \E b \in Kind(W, "edit") : b.message_id = a.message_id

\* C12 (as claimed): an error never leaves the task of a work item; when the
\* program has been ended by an error, no task was under way.
WorkItemErrorsContained ==
    mainpc = "crashed" => \A W \in AllPairs : tasks[W].pc \in {"idle", "done"}

\* C13: a subscriber the classifier answered for is sent a provisional
\* message exactly when every mode it has switched on is met by the answer;
\* a subscriber with an unmet mode has no entry in partial_sent_map.
ModeFilterDecides ==
    \A W \in AllPairs :
        \A c \in Kind(W, "classify") :
            ~c.text.raised =>
                LET modes == user_pair_map[W][c.message_id[2]].modes
                    r == c.text
                    met == /\ modes.mode_only_preferred = 1 => r.preferred = 1
                           /\ modes.near_good_deals = 1 =>
                                 (r.is_good_deal \/ r.near_good_deal)
                           /\ modes.good_deals = 1 => r.is_good_deal
                    sent == \E a \in Kind(W, "send") : a.message_id = c.message_id
                    pending == \E n \in DOMAIN tasks[W].partial_sent_map :
                                  tasks[W].partial_sent_map[n].message_id = c.message_id
                IN /\ sent <=> met
                   /\ ~met => ~pending

\* In one pipeline a subscriber with an unmet mode was passed over and a
\* later subscriber, whose mode was met, was sent the message.
ModeSkippedAndSent ==
    \E W \in AllPairs :
        \E c1, c2 \in Kind(W, "classify") :
            /\ c1.message_id[2] < c2.message_id[2]
            /\ user_pair_map[W][c1.message_id[2]].modes.mode_only_preferred = 1
            /\ c1.text.preferred = 0
            /\ user_pair_map[W][c2.message_id[2]].modes.good_deals = 1
            /\ c2.text.is_good_deal
            /\ ~\E a \in Kind(W, "send") : a.message_id = c1.message_id
            /\ \E a \in Kind(W, "sent") : a.message_id = c2.message_id

\* C14: among the subscribers the pipeline of a listing has passed, those
\* with an excluded word in the title (compared in lower case) have had no
\* classification call and no message, and every other one has been handed
\* to the classifier.
ExcludedNeverClassified ==
    \A W \in AllPairs :
        /\ \A a \in acts[W] :
              a.kind \in {"classify", "send", "sent", "edit"} =>
                  ~HasExcludedWord(user_pair_map[W][a.message_id[2]], TitleOf(a.link))
        /\ tasks[W].pc = "subscriber" =>
              \A n \in 1..(tasks[W].j - 1) :
                  \/ HasExcludedWord(user_pair_map[W][n], Head(tasks[W].listings).title)
                  \/ \E c \in Kind(W, "classify") :
                        c.message_id = <<Head(tasks[W].listings).link, n>>

\* The first subscriber was excluded by a word written in another case and
\* the ones after it were classified.
ExcludedThenOthersClassified ==
    \E W \in AllPairs :
        /\ tasks[W].pc = "subscriber"
        /\ tasks[W].j > Len(user_pair_map[W])
        /\ Len(user_pair_map[W]) > 1
        /\ Head(tasks[W].listings).title = "Bike PARTS"
        /\ HasExcludedWord(user_pair_map[W][1], "Bike PARTS")
        /\ {c.message_id[2] : c \in Kind(W, "classify")} = 2..Len(user_pair_map[W])

\* C15 (as claimed): when a work item moves on from a listing, its detail
\* view has been opened exactly if a provisional message for it was sent
\* successfully.
DetailIffSent ==
    \A W \in AllPairs :
        PipelineOver(W) => (Kind(W, "detail") # {} <=> Kind(W, "sent") # {})

\* C16: partial_sent_map holds exactly the subscribers whose send returned a
\* message, each with the id of a message that was sent, and only messages
\* that were sent are edited.
PendingHoldsExactlySent ==
    \A W \in AllPairs :
        /\ InPipeline(W) =>
              LET map == tasks[W].partial_sent_map
              IN /\ {map[n].chat_id : n \in DOMAIN map}
                        = {a.chat_id : a \in Kind(W, "sent")}
                 /\ \A n \in DOMAIN map :
                       \E a \in Kind(W, "sent") :
                           a.message_id = map[n].message_id /\ a.chat_id = map[n].chat_id
        /\ \A b \in Kind(W, "edit") :
              \E a \in Kind(W, "sent") : a.message_id = b.message_id

\* The send to the first subscriber failed, the second subscriber was still
\* sent its message, and only the second one is being edited.
SendFailedOthersSent ==
    \E W \in AllPairs :
        \E a1 \in Kind(W, "send") :
            /\ a1.message_id[2] = 1
            /\ ~\E a \in Kind(W, "sent") : a.message_id = a1.message_id
            /\ \E a2 \in Kind(W, "sent") : a2.message_id[2] = 2
            /\ tasks[W].pc = "edit_wait"
            /\ Len(tasks[W].partial_sent_map) = 1

\* C17 (as claimed): every enriched edit that failed is followed by a
\* fallback edit of the same message.
FailedEditFallsBack ==
    \A W \in AllPairs :
        \A a \in Kind(W, "edit_failed") :
            \E b \in Kind(W, "edit") : IsFallback(b) /\ b.message_id = a.message_id

\* C17 (amended): a fallback edit of a message is attempted exactly when the
\* enriched edit of that message raised an exception, in computing the
\* distance or in edit_message; an edit that returned False has none.
FallbackOnlyOnException ==
    \A W \in AllPairs :
        \A m \in {a.message_id : a \in Kind(W, "edit")} :
            (\E b \in Kind(W, "edit") : IsFallback(b) /\ b.message_id = m)
                <=> \/ \E a \in Kind(W, "edit_failed") :
                          a.message_id = m /\ a.text = <<"raise">>
                    \/ \E a \in Kind(W, "distance") :
                          a.message_id = m /\ a.text[2] = "raise"

\* An enriched edit returned False and the loop went on without a fallback.
FailedEditNoFallback ==
    \E W \in AllPairs :
        \E a \in Kind(W, "edit_failed") :
            /\ a.text = <<"false">>
            /\ tasks[W].pc = "editing"
            /\ ~\E b \in Kind(W, "edit") : IsFallback(b) /\ b.message_id = a.message_id

\* C18: while the entries of a listing whose detail view gave no
\* coordinates are edited, the address is "Unknown Address", the distance
\* function has not been called, every edit made carries the "Distance
\* unknown" marker (or is the fallback that follows an edit that raised),
\* and every entry the loop has passed has been edited.
DegradedEditWithoutCoordinates ==
    \A W \in AllPairs :
        (tasks[W].pc \in {"editing", "edit_wait", "fallback_wait"}
            /\ (tasks[W].latitude = None \/ tasks[W].longitude = None)) =>
                /\ tasks[W].address = "Unknown Address"
                /\ Kind(W, "distance") = {}
                /\ \A b \in Kind(W, "edit") :
                      \/ b.text[2] = "Unknown Address" /\ b.text[3] = "Distance unknown"
                      \/ IsFallback(b) /\ \E a \in Kind(W, "edit_failed") :
                                             a.message_id = b.message_id
                /\ \A n \in 1..(tasks[W].e - 1) :
                      \E b \in Kind(W, "edit") :
                          /\ b.message_id = tasks[W].partial_sent_map[n].message_id
                          /\ ~IsFallback(b)

\* Two entries were edited after a detail view without coordinates.
AllEditedWithoutCoordinates ==
    \E W \in AllPairs :
        /\ tasks[W].pc = "editing"
        /\ tasks[W].latitude = None
        /\ Len(tasks[W].partial_sent_map) = 2
        /\ tasks[W].e = 3

\* C19 (as claimed): two tasks of one location are never both suspended
\* between the test of the stored status and the write it guards.
NoSharedStaleStatus ==
    \A W1, W2 \in AllPairs :
        (W1 # W2 /\ Lower(W1[2]) = Lower(W2[2])) =>
            ~(tasks[W1].pc = "status_wait" /\ tasks[W2].pc = "status_wait")

\* C20 (as claimed): a status broadcast for a location never announces the
\* state its previous broadcast announced.
BroadcastsAlternate ==
    [][\A b \in emitted' : lastBroadcast[b.location] # Announced(b.is_active)]_vars

\* ------------------------------------------------------------------------
\* Properties of telegram.py
\* ------------------------------------------------------------------------

MessagingOver == msg.pc \in {"returned", "raised"}

\* The first attempt the transport answers without TelegramError, 0 if none.
FirstAnswer(transport) ==
    IF \A i \in DOMAIN transport : transport[i] = "TelegramError" THEN 0
    ELSE CHOOSE i \in DOMAIN transport :
            /\ transport[i] # "TelegramError"
            /\ \A m \in 1..(i - 1) : transport[m] = "TelegramError"

\* C23: send_message and edit_message end after at most three bot calls;
\* they return the message / True at the first call that succeeds, having
\* made no call after it, and None / False when three calls in a row
\* raised TelegramError.
RetryAtMostThrice ==
    msg.fn \in SingleMessage =>
        /\ [](/\ msg.calls <= 3
              /\ (msg.pc = "returned" /\ msg.result = Success(msg.fn)) =>
                    /\ msg.calls = FirstAnswer(msg.transport)
                    /\ msg.transport[msg.calls] = "ok"
              /\ (msg.pc = "returned" /\ msg.result = Failure(msg.fn)) =>
                    /\ msg.calls = 3
                    /\ \A i \in 1..3 : msg.transport[i] = "TelegramError"
              /\ (msg.pc = "returned") => msg.result \in {Success(msg.fn), Failure(msg.fn)})
        /\ (msg.pc = "try" => <>MessagingOver)

\* A send that succeeded at its second attempt.
SentAtSecondAttempt ==
    /\ msg.fn = "send_message"
    /\ msg.pc = "returned"
    /\ msg.result = "message"
    /\ msg.calls = 2

\* C24 (as claimed): a call that gave up after three failed attempts has
\* waited 2, 4 and 8 seconds.
BackoffTwoFourEight ==
    (msg.fn \in SingleMessage /\ msg.pc = "returned" /\ msg.result = Failure(msg.fn)) =>
        msg.slept = <<2, 4, 8>>

\* C24 (amended): the delays are 2 seconds after the first failed attempt
\* and 4 seconds after the second; nothing is waited after the third, so a
\* call that gave up has waited 2 and 4 seconds and no delay is ever longer.
BackoffTwoFour ==
    msg.fn \in SingleMessage =>
        /\ Len(msg.slept) <= 2
        /\ \A i \in DOMAIN msg.slept : msg.slept[i] = 2 ^ i
        /\ msg.pc = "try" => Len(msg.slept) = msg.attempt
        /\ msg.pc = "sleeping" => Len(msg.slept) = msg.calls
        /\ (msg.pc = "returned" /\ msg.result = Success(msg.fn)) =>
                Len(msg.slept) = msg.calls - 1
        /\ (msg.pc = "returned" /\ msg.result = Failure(msg.fn)) => msg.slept = <<2, 4>>

\* An edit that gave up after its third failed attempt.
EditGaveUp ==
    /\ msg.fn = "edit_message"
    /\ msg.pc = "returned"
    /\ msg.result = "False"
    /\ msg.calls = 3
    /\ msg.slept = <<2, 4>>

\* ------------------------------------------------------------------------
\* Properties of the polling loop and of the Subscription Compiler
\* ------------------------------------------------------------------------

TaskUnderWay(W) == tasks[W].pc \notin {"idle", "done"}

\* C21: the tasks of a cycle are all created by one dispatch; tasks are
\* under way only while the loop waits in the gather, so none is running
\* when the compile of the next cycle runs; and the loop goes on from the
\* gather only when every task of the cycle has finished.
FanOutFanIn ==
    /\ [](mainpc \notin {"gather", "crashed"} => \A W \in AllPairs : ~TaskUnderWay(W))
    /\ [][/\ (mainpc # "gather" /\ mainpc' = "gather") =>
                \A W \in AllPairs :
                    tasks'[W].pc = IF W \in active_pairs THEN "ready" ELSE "idle"
          /\ (mainpc = "gather" /\ mainpc' \notin {"gather", "crashed"}) =>
                \A W \in active_pairs : tasks[W].pc = "done"]_vars

\* Two tasks of one cycle suspended at the same time, each waiting for its
\* results page.
TwoTasksInFlight ==
    \E W1, W2 \in AllPairs :
        /\ W1 # W2
        /\ mainpc = "gather"
        /\ tasks[W1].pc = "load_wait"
        /\ tasks[W2].pc = "load_wait"

\* The notification steps the step under way adds for W.
NewActs(W) == acts'[W] \ acts[W]

Evaluated(W, link, n) ==
    \/ HasExcludedWord(user_pair_map[W][n], TitleOf(link))
    \/ \E c \in Kind(W, "classify") : c.message_id = <<link, n>>

\* C22: a task takes the records of its page from the front, one at a time,
\* and every notification step concerns the record at the front, so the
\* steps of one listing are over before the next listing is taken up; the
\* classifications and provisional sends of a listing go through the
\* subscriber list in its order; the detail view is opened once, after every
\* subscriber has been evaluated and before any edit.
OrderedPipeline ==
    [][\A W \in AllPairs :
          LET f == tasks[W]
          IN /\ (f.listings # <<>> /\ tasks'[W].listings # f.listings) =>
                    tasks'[W].listings \in {<<>>, Tail(f.listings)}
             /\ \A a \in NewActs(W) :
                   /\ f.listings # <<>>
                   /\ a.link = Head(f.listings).link
                   /\ a.kind \in {"classify", "send", "sent"} =>
                         /\ a.message_id = <<a.link, f.j>>
                         /\ Kind(W, "detail") \cup Kind(W, "edit") = {}
                         /\ \A b \in Kind(W, "send") \cup Kind(W, "sent") :
                               b.message_id[2] <= f.j
                         /\ a.kind # "sent" =>
                               \A b \in Kind(W, "classify") \cup Kind(W, "send") :
                                   b.message_id[2] < f.j
                         /\ \A n \in 1..(f.j - 1) : Evaluated(W, a.link, n)
                   /\ a.kind = "detail" =>
                         /\ Kind(W, "detail") \cup Kind(W, "edit") = {}
                         /\ \A n \in DOMAIN user_pair_map[W] : Evaluated(W, a.link, n)
                   /\ a.kind \in {"edit", "distance", "edit_failed"} =>
                         Kind(W, "detail") # {}]_vars

\* A poll whose page showed two new listings: the first has been dealt with
\* and both messages of the second have been edited.
SecondListingEdited ==
    \E W \in AllPairs :
        /\ tasks[W].pc = "editing"
        /\ seenAtFetch[W] = {}
        /\ visited[W] = {"/item/A", "/item/B"}
        /\ notifiedBy["/item/B"] = {W}
        /\ Head(tasks[W].listings) = RecA
        /\ Len(tasks[W].partial_sent_map) = 2
        /\ tasks[W].e = 3

\* The step under way is a compile that returned: line 477 or line 508.
Compiled ==
    \/ mainpc = "boot" /\ mainpc' = "init_notify"
    \/ mainpc = "top" /\ mainpc' = "schedules"

ChatIds(list) == {list[n].chat_id : n \in DOMAIN list}

\* C25: a compile gives a user's keywords their work items, with the user
\* among the subscribers, exactly when the activation flag is set and the
\* expiry date is today or later; a user left out is in no subscriber list
\* and in no entry of LOCATION_USERS, a user kept is in the entry of the
\* location.
SkipRule ==
    [][Compiled =>
          \A i \in DOMAIN users :
              LET u == users[i]
                  today == DateOf(Now)
                  kept == u.activation_status # 0 /\ ~DateLT(u.expiry_date, today)
              IN /\ \A n \in DOMAIN u.keywords :
                        LET pair == <<u.keywords[n], u.location>>
                        IN kept <=> /\ pair \in DOMAIN user_pair_map'
                                    /\ u.user_id \in ChatIds(user_pair_map'[pair])
                 /\ ~kept =>
                        /\ \A pair \in DOMAIN user_pair_map' :
                              u.user_id \notin ChatIds(user_pair_map'[pair])
                        /\ \A k \in DOMAIN LOCATION_USERS' :
                              u.user_id \notin LOCATION_USERS'[k]
                 /\ kept => /\ Lower(u.location) \in DOMAIN LOCATION_USERS'
                            /\ u.user_id \in LOCATION_USERS'[Lower(u.location)]]_vars

\* The compile of the day after a subscription expired: its user is gone
\* from the work items and from LOCATION_USERS, as is the deactivated user.
ExpiredUserDropped ==
    /\ users = ZoneUsers
    /\ mainpc = "schedules"
    /\ DateOf(Now) = <<2025, 7, 31>>
    /\ DOMAIN user_pair_map = {<<"bike", "Perth">>}
    /\ ChatIds(user_pair_map[<<"bike", "Perth">>]) = {4}
    /\ LOCATION_USERS = [brisbane |-> {5}, perth |-> {4}]

\* The subscriber configs of the users of us that are kept on the day today
\* and have the keyword and the location of pair, in the order of us.
SubscribersExpected(us, pair, today) ==
    LET having == SelectSeq(us, LAMBDA u :
                      /\ u.activation_status # 0 /\ ~DateLT(u.expiry_date, today)
                      /\ u.location = pair[2]
                      /\ \E n \in DOMAIN u.keywords : u.keywords[n] = pair[1])
    IN [i \in DOMAIN having |-> SubscriberConfig(having[i])]

\* C26 (as claimed): after a compile the subscriber list of every work item
\* holds one config for each kept user with that keyword and location, in
\* user-list order, and nothing else, whatever the list held before.
OneConfigPerUser ==
    [][Compiled =>
          /\ DOMAIN user_pair_map' =
                {pair \in AllPairs : SubscribersExpected(users, pair, DateOf(Now)) # <<>>}
          /\ \A pair \in DOMAIN user_pair_map' :
                user_pair_map'[pair] = SubscribersExpected(users, pair, DateOf(Now))]_vars

\* C27: after a compile a work item is in active_pairs exactly when the
\* schedule engine says its location is active now, and user_pair_map holds
\* every work item of the kept users, active or not.
ActiveSetIffActive ==
    [][Compiled =>
          /\ active_pairs' \subseteq DOMAIN user_pair_map'
          /\ \A pair \in DOMAIN user_pair_map' :
                pair \in active_pairs' <=> is_monitoring_active(pair[2], Now).is_active
          /\ \A i \in DOMAIN users :
                Survives(users[i], DateOf(Now)) =>
                    \A n \in DOMAIN users[i].keywords :
                        <<users[i].keywords[n], users[i].location>>
                            \in DOMAIN user_pair_map']_vars

\* A compile at 22:00 Brisbane time, noon UTC: the Brisbane work item is in
\* the mapping but not in the active set, the Perth one is in both.
PausedItemKeptInMap ==
    /\ users = ZoneUsers
    /\ mainpc = "schedules"
    /\ clock = 2
    /\ DOMAIN user_pair_map = {<<"bike", "Brisbane">>, <<"bike", "Perth">>}
    /\ active_pairs = {<<"bike", "Perth">>}

\* C28 (as claimed): every compile of the loop works on the user records
\* the persistence layer holds at that moment.
CompileReadsStore ==
    [][Compiled =>
          user_pair_map' = generate_pairs_and_log(stored, Now, LOCATION_STATUS).user_pair_map]_vars

\* C29 (as claimed): an existing entry of LOCATION_STATUS is changed only by
\* check_and_update_schedules.
OnlyTrackerWritesStatus ==
    [][\A k \in DOMAIN LOCATION_STATUS :
          (k \in DOMAIN LOCATION_STATUS' /\ LOCATION_STATUS'[k] # LOCATION_STATUS[k]) =>
              mainpc \in {"updates", "update_wait"}]_vars

ScenarioPair == <<"bike", "Brisbane">>

\* C30: one subscriber with the good_deals mode; the first poll showed
\* listing A only, a later poll shows A and B and B is classified as a good
\* deal.  No message is ever sent for A; for B there is one provisional
\* message, labelled Good Deal, and when the listing is done with, one edit,
\* of that message; a poll that finds B already seen sends nothing.  The
\* edit is made with what the detail view gave: when it gave the
\* coordinates the text is the label, the resolved address and the
\* computed distance, and only when it gave none is it the label with
\* "Unknown Address" and "Distance unknown".
ScenarioGoodDeal ==
    /\ []((users = ScenarioUsers /\ seededFirst = {"/item/A"}) =>
              LET W == ScenarioPair
                  sends == Kind(W, "send")
                  sent == Kind(W, "sent")
                  edits == Kind(W, "edit")
              IN /\ notifiedBy["/item/A"] = {}
                 /\ \A a \in acts[W] : a.link = "/item/B"
                 /\ "/item/B" \in seenAtFetch[W] => acts[W] = {}
                 /\ Cardinality(sends) <= 1
                 /\ \A a \in sends : a.chat_id = 31 /\ a.text = "Good Deal @ "
                 /\ sent # {} => Cardinality(sends) = 1
                 /\ (PipelineOver(W) /\ acts[W] # {}) =>
                       /\ Cardinality(sent) = 1
                       /\ Cardinality(edits) = 1
                       /\ Kind(W, "detail") # {}
                       /\ \A a \in sent : \A b \in edits :
                             /\ b.message_id = a.message_id
                             /\ b.chat_id = 31)
    /\ [][(users = ScenarioUsers /\ seededFirst = {"/item/A"}) =>
             \A b \in NewActs(ScenarioPair) :
                 b.kind = "edit" =>
                     b.text = IF \/ tasks[ScenarioPair].latitude = None
                                 \/ tasks[ScenarioPair].longitude = None
                              THEN <<"Good Deal @ ", "Unknown Address",
                                     "Distance unknown">>
                              ELSE <<"Good Deal @ ", "1 Main St", "12 km">>]_vars

\* The poll that showed A and B is over: A was passed over, B was announced
\* and its message edited with address and distance.
ScenarioDone ==
    /\ users = ScenarioUsers
    /\ seededFirst = {"/item/A"}
    /\ visited[ScenarioPair] = {"/item/A", "/item/B"}
    /\ notifiedBy["/item/B"] = {ScenarioPair}
    /\ tasks[ScenarioPair].pc = "done"
    /\ \E b \in Kind(ScenarioPair, "edit") :
          b.text = <<"Good Deal @ ", "1 Main St", "12 km">>

\* ------------------------------------------------------------------------
\* The seen set and the first-run flags over the whole run
\* ------------------------------------------------------------------------

\* C32: seen_listings only grows: no step of the loop or of a task removes a
\* link from it, so every later value is a superset of every earlier one.
SeenOnlyGrows == [][seen_listings \subseteq seen_listings']_vars

\* Both listings have been recorded, one after the other, and the cycle is
\* over.
BothLinksSeen ==
    /\ mainpc = "sleep"
    /\ seen_listings = {"/item/A", "/item/B"}
    /\ seededFirst # {} /\ seededFirst # seen_listings

\* C31: a pair's first-run flag is TRUE when the flags are created, is
\* cleared by the step that ends a poll after its last record, is left as it
\* is by a poll that aborts and by a task that skips an inactive location,
\* and is never set again once cleared.
FlagLifecycle ==
    [][/\ mainpc = "boot" /\ mainpc' # "crashed" =>
             /\ DOMAIN first_run' = full_pairs'
             /\ \A W \in full_pairs' : first_run'[W]
       /\ mainpc # "boot" =>
             /\ DOMAIN first_run' = DOMAIN first_run
             /\ \A W \in DOMAIN first_run :
                   /\ ~first_run[W] => ~first_run'[W]
                   /\ first_run[W] /\ ~first_run'[W] =>
                         /\ Running(W, "listing")
                         /\ tasks[W].listings = <<>>
                         /\ tasks'[W].pc = "done"
                   /\ Running(W, "listing") /\ tasks[W].listings = <<>> =>
                         ~first_run'[W]
                   /\ tasks[W].pc \in {"ready", "status_wait", "opening", "load_wait"}
                         /\ tasks'[W].pc = "done" =>
                         first_run'[W] = first_run[W]]_vars

\* In one cycle a poll went through its page and cleared its flag, while the
\* task of another pair ended before any record and kept its flag.
FlagClearedAndKept ==
    \E W1, W2 \in full_pairs :
       /\ mainpc = "gather"
       /\ tasks[W1].pc = "done" /\ visited[W1] # {} /\ ~first_run[W1]
       /\ tasks[W2].pc = "done" /\ visited[W2] = {} /\ first_run[W2]

\* ------------------------------------------------------------------------
\* The schedule test at the start of a task
\* ------------------------------------------------------------------------

\* C37: a task goes on to its poll only if its location was active when the
\* task started; a task that found its location inactive ends without a
\* fetch, and its steps leave seen_listings and the first-run flags as they
\* were.
PollOnlyIfActive ==
    [][\A W \in AllPairs :
          /\ tasks[W].pc = "ready" /\ tasks'[W].pc \notin {"ready", "raised"} =>
                LET a == is_monitoring_active(W[2], Now).is_active
                IN /\ tasks'[W].pc = "opening" => a
                   /\ tasks'[W].pc = "status_wait" => tasks'[W].is_active = a
                   /\ ~a => /\ tasks'[W].pc \in {"status_wait", "done"}
                            /\ UNCHANGED <<seen_listings, first_run, seenAtFetch, visited>>
          /\ tasks[W].pc = "status_wait" /\ tasks'[W].pc \notin {"status_wait", "raised"} =>
                /\ tasks'[W].pc = "opening" <=> tasks[W].is_active
                /\ ~tasks[W].is_active =>
                      /\ tasks'[W].pc = "done"
                      /\ UNCHANGED <<seen_listings, first_run, seenAtFetch, visited>>
          /\ tasks'[W].pc = "opening" /\ tasks[W].pc # "opening" =>
                tasks[W].pc \in {"ready", "status_wait"}
          /\ tasks'[W].pc = "load_wait" /\ tasks[W].pc # "load_wait" =>
                tasks[W].pc = "opening"
          /\ tasks[W].listings = <<>> /\ tasks'[W].listings # <<>> =>
                tasks[W].pc = "load_wait"]_vars

\* A pair was dispatched while its location was active, the location became
\* inactive before the task started, and the task ended without a fetch: the
\* flag is still set, nothing was recorded as seen.
InactiveTaskSkipped ==
    \E W \in active_pairs :
       /\ mainpc = "gather"
       /\ ~world.faults
       /\ tasks[W].pc = "done"
       /\ ~is_monitoring_active(W[2], Now).is_active
       /\ ~LOCATION_STATUS[Lower(W[2])].is_active
       /\ visited[W] = {}
       /\ first_run[W]
       /\ seen_listings = {}

\* ------------------------------------------------------------------------
\* Notification at most once
\* ------------------------------------------------------------------------

\* C35: the step that takes a listing into the notification pipeline finds
\* its link outside seen_listings and puts it there, and no pipeline was
\* entered for that link before in the run; every later step of the
\* pipeline, a send included, acts on a link that is already in
\* seen_listings, and a send is never repeated for the same subscriber entry.
\* With seen_listings only growing, a listing whose processing aborted is
\* not notified by any later poll.
AtMostOnce ==
    [][/\ seen_listings \subseteq seen_listings'
       /\ \A W \in AllPairs :
             /\ tasks[W].pc = "listing" /\ tasks'[W].pc = "subscriber" =>
                   LET link == Head(tasks[W].listings).link
                   IN /\ link \notin seen_listings
                      /\ link \in seen_listings'
                      /\ notifiedBy[link] = {}
                      /\ notifiedBy'[link] = {W}
             /\ \A a \in NewActs(W) :
                   /\ a.link = Head(tasks[W].listings).link
                   /\ a.link \in seen_listings
                   /\ notifiedBy[a.link] = {W}
                   /\ a.kind = "send" =>
                         ~\E b \in acts[W] :
                             b.kind = "send" /\ b.message_id = a.message_id]_vars

\* The classification of a listing raised after its link was recorded: the
\* poll is over, nothing was sent for the listing, and its link stays in
\* seen_listings.
AbortedAfterAdd ==
    \E W \in full_pairs :
       /\ tasks[W].pc = "done"
       /\ \E a \in Kind(W, "classify") : a.text.raised /\ a.link \in seen_listings
                                         /\ notifiedBy[a.link] = {W}
       /\ Kind(W, "send") = {}

\* ------------------------------------------------------------------------
\* Incomplete records and aborted polls
\* ------------------------------------------------------------------------

\* C33: the step of a poll on a record without a link, a price or a title
\* only moves on to the next record of the page: seen_listings, the flags
\* and the notification steps are left as they were, and the link of such a
\* record is never in seen_listings nor taken into the pipeline.
IncompleteSkipped ==
    [][/\ \A rec \in Incomplete :
             rec.link \in Links =>
                rec.link \notin seen_listings' /\ notifiedBy'[rec.link] = {}
       /\ \A W \in AllPairs :
             Running(W, "listing") /\ tasks[W].listings # <<>>
                /\ Head(tasks[W].listings) \in Incomplete =>
                /\ tasks'[W].pc = "listing"
                /\ tasks'[W].listings = Tail(tasks[W].listings)
                /\ UNCHANGED <<seen_listings, first_run, acts, notifiedBy, seededFirst,
                               visited>>]_vars

\* The only page that shows A begins with a record without a title: the poll
\* went past that record and announced A, whose link alone was recorded.
ListingAfterIncompleteSent ==
    \E W \in full_pairs :
       /\ world.pages = {<<RecNoTitle, RecA>>, <<RecNoAnchor, RecB>>,
                          <<RecNoPrice, RecNoHref>>}
       /\ seenAtFetch[W] = {}
       /\ seen_listings = {"/item/A"}
       /\ notifiedBy["/item/A"] = {W}
       /\ \E a \in Kind(W, "sent") : a.link = "/item/A"

\* C38: a link enters seen_listings only in the step of a poll that is at
\* the record carrying it; the step in which a poll ends on an error adds
\* nothing and leaves the flags alone, so the records the poll had not
\* reached are not in the set because of it and a later poll treats them as
\* new.
UnreachedStayUnseen ==
    [][/\ \A link \in seen_listings' \ seen_listings :
             \E W \in AllPairs :
                /\ Running(W, "listing")
                /\ tasks[W].listings # <<>>
                /\ Head(tasks[W].listings).link = link
                /\ visited'[W] = visited[W] \cup {link}
       /\ \A W \in AllPairs :
             tasks'[W].pc = "done" /\ tasks[W].pc \notin {"done", "listing"} =>
                UNCHANGED <<seen_listings, first_run>>]_vars

\* A poll read a page with A and B and ended when the classification of A
\* raised, with B still ahead: A is recorded, B is not.
AbortedBeforeSecond ==
    \E W \in full_pairs :
       /\ tasks[W].pc = "done"
       /\ tasks[W].listings = <<RecA, RecB>>
       /\ seenAtFetch[W] = {}
       /\ \E a \in Kind(W, "classify") : a.text.raised /\ a.link = "/item/A"
       /\ visited[W] = {"/item/A"}
       /\ seen_listings = {"/item/A"}

\* ------------------------------------------------------------------------
\* The two schedule operations side by side
\* ------------------------------------------------------------------------

\* C39 (as claimed): for every location and instant get_monitoring_schedule
\* reports the is_active of is_monitoring_active and the same next_change
\* instant (its text, cut at the second, names an instant without
\* microseconds), and a next_status opposite to is_active.
SchedulesAgree ==
    ret.fn = "get_monitoring_schedule" =>
        LET a == is_monitoring_active(call.location, call.utcnow)
        IN /\ ~ret.value.raised
           /\ ~a.raised
           /\ ret.value.is_active = a.is_active
           /\ ret.value.next_change = FormatSeconds(a.next_change)
           /\ a.next_change.microsecond = 0
           /\ ret.value.next_status = (IF a.is_active THEN "inactive" ELSE "active")

\* ------------------------------------------------------------------------
\* Notifications and the schedule
\* ------------------------------------------------------------------------

\* C34 (as claimed): no provisional send and no edit for a pair is made at a
\* moment when the pair's location is inside its inactive window, whenever
\* the poll making it started.
SendsOnlyWhileActive ==
    [][\A W \in AllPairs :
          \A a \in NewActs(W) :
             a.kind \in {"send", "edit"} =>
                is_monitoring_active(W[2], Now).is_active]_vars

\* ------------------------------------------------------------------------
\* Resumption
\* ------------------------------------------------------------------------

\* The pair is a work item and its location is active now.
ActiveNow(W) ==
    /\ W \in DOMAIN user_pair_map
    /\ is_monitoring_active(W[2], Now).is_active

\* C36: under fair scheduling, the work item of the run, once its location
\* has become active and stays active, is polled again and again; the wait of a cycle, the one
\* of the all-inactive branch included, always ends with a new cycle; and in
\* a process that started while the location was paused, the first poll of
\* the work item seeds: a link is seeded once the location stays active, and
\* no listing is announced before one was seeded.
ResumptionLiveness ==
    /\ <>[]ActiveNow(ScenarioPair) =>
          []<>(tasks[ScenarioPair].pc = "opening") /\ <>(seededFirst # {})
    /\ [](mainpc = "sleep" => <>(mainpc = "top"))
    /\ []((\E link \in Links : notifiedBy[link] # {}) => seededFirst # {})

\* The process started at 22:00 with the location paused; the location has
\* resumed, and the first poll of the work item has gone through its page,
\* seeding what it found and clearing the flag.
SeededAfterResume ==
    \E W \in full_pairs :
       /\ world.start = 2 /\ clock = 3
       /\ ~is_monitoring_active(W[2], Timeline[world.start]).is_active
       /\ ActiveNow(W)
       /\ tasks[W].pc = "done"
       /\ visited[W] # {}
       /\ seededFirst # {} /\ seededFirst = seen_listings
       /\ \A link \in Links : notifiedBy[link] = {}
       /\ ~first_run[W]

====
